---- MODULE Spec2Model ----
(***************************************************************************)
(* "How Wet is AI?": the aggregation server (server.js), the response      *)
(* length estimator (tokenEstimator.js), the prompt classifiers and the    *)
(* energy model (index.js) and the content script's prompt history.        *)
(*                                                                         *)
(* Each component has its own specification (SpecServer, SpecEst, ...);    *)
(* the variables of the other components keep their initial values.        *)
(*                                                                         *)
(* Numbers.  Token estimates are kept in tenths of a token (suffix 10), so *)
(* that x * 1.2 or x * 4.5 is exact; a JavaScript NaN is the record NaN.   *)
(***************************************************************************)
EXTENDS Integers, Sequences, FiniteSets, TLC

VARIABLES
    \* server.js: the contents of water-usage-data.json and the last exchange
    totalWaterML, contributorCount, submittedUsers, request, response,
    \* a call of estimateResponseTokens: its arguments and what it returned
    callPrompt, callPromptTokenCount, tokenEstimate,
    \* what calls of the content script's countTokens and calculateEnergy
    \* returned
    countedTokens, energyData,
    \* index.js: the cumulative counters, the last analysis, the interface and
    \* the prompts whose analysis has not resumed after its await; the lines of
    \* a file piped to the standard input and how many of them readline has
    \* emitted
    totalPrompts, totalTokens, totalRealWorldKWh, totalRealWorldWaterUsageMl,
    result, closed, console, pending, stdin, linesRead,
    \* a call of each classifier of index.js on a text, and what it returned
    classifiedText, reasoningLevelOfText, opennessScoreOfText, vocabComplexityOfText,
    \* the content script: the page's localStorage, every tab's history, the
    \* time and the last call
    localStorage, conversationHistory, loaded, clock, call,
    \* the content script's view of the chat in every tab: the texts of the
    \* user messages of the document, the keys of the processed prompts and
    \* the timers that are pending
    userMessages, lastProcessedPrompts, timers,
    \* the popup: the tab it was opened on, its EnergyStatisticsCalculator, the
    \* statistics of its last query, chrome.storage.local and the calls of
    \* submitWaterUsage
    activeTab, energyStats, stats, chromeStorage, submissions

serverVars == <<totalWaterML, contributorCount, submittedUsers, request, response>>

estimatorVars ==
    <<callPrompt, callPromptTokenCount, tokenEstimate, countedTokens, energyData>>
cliVars == <<totalPrompts, totalTokens, totalRealWorldKWh, totalRealWorldWaterUsageMl,
             result, closed, console, pending, stdin, linesRead>>
classifierVars ==
    <<classifiedText, reasoningLevelOfText, opennessScoreOfText, vocabComplexityOfText>>
chatVars == <<userMessages, lastProcessedPrompts, timers>>
historyVars == <<localStorage, conversationHistory, loaded, clock, call, chatVars>>
popupVars == <<activeTab, energyStats, stats, chromeStorage, submissions>>
vars == <<serverVars, estimatorVars, cliVars, classifierVars, historyVars, popupVars>>


(***************************************************************************)
(* Strings.  A prompt is a TLA+ string; Len, SubSeq and \o act on it as on *)
(* a sequence of characters.                                               *)
(***************************************************************************)

Char(s, i) == SubSeq(s, i, i)

Digits == {"0", "1", "2", "3", "4", "5", "6", "7", "8", "9"}
UpperCaseLetters == "ABCDEFGHIJKLMNOPQRSTUVWXYZ"
LowerCaseLetters == "abcdefghijklmnopqrstuvwxyz"
Letters == {Char(LowerCaseLetters, i) : i \in 1..26} \cup {Char(UpperCaseLetters, i) : i \in 1..26}
\* \w and \s of a JavaScript regular expression (ASCII input).
WordChars == Letters \cup Digits \cup {"_"}
SpaceChars == {" ", "\t", "\n", "\r"}
LineTerminators == {"\n", "\r"}

\* String.prototype.toLowerCase, character by character.
LowerChar(c) ==
    IF \E i \in 1..26 : Char(UpperCaseLetters, i) = c
    THEN Char(LowerCaseLetters, CHOOSE i \in 1..26 : Char(UpperCaseLetters, i) = c)
    ELSE c

RECURSIVE toLowerCase(_)
toLowerCase(s) ==
    IF Len(s) = 0 THEN "" ELSE LowerChar(Char(s, 1)) \o toLowerCase(SubSeq(s, 2, Len(s)))

\* String.prototype.includes
includes(s, p) ==
    \E i \in 1..(Len(s) - Len(p) + 1) : SubSeq(s, i, i + Len(p) - 1) = p

DigitValue(c) ==
    CASE c = "0" -> 0 [] c = "1" -> 1 [] c = "2" -> 2 [] c = "3" -> 3 [] c = "4" -> 4
      [] c = "5" -> 5 [] c = "6" -> 6 [] c = "7" -> 7 [] c = "8" -> 8 [] c = "9" -> 9

\* A JavaScript number that may be NaN.  v10 is the value in tenths.
NaN == [nan |-> TRUE, v10 |-> 0]
Num10(x) == [nan |-> FALSE, v10 |-> x]
Num(x) == Num10(10 * x)

\* The end (exclusive) of the longest run of characters of class C that starts at p.
RECURSIVE RunEnd(_, _, _)
RunEnd(s, p, C) ==
    IF p <= Len(s) /\ Char(s, p) \in C THEN RunEnd(s, p + 1, C) ELSE p

RECURSIVE DigitsValue(_, _)
DigitsValue(s, acc) ==
    IF Len(s) = 0 THEN acc
    ELSE DigitsValue(SubSeq(s, 2, Len(s)), 10 * acc + DigitValue(Char(s, 1)))

\* parseInt(s, 10) for a string without leading blanks or sign: the value of the
\* leading digits, NaN when there are none.
parseInt(s) ==
    LET e == RunEnd(s, 1, Digits)
    IN IF e = 1 THEN NaN ELSE Num(DigitsValue(SubSeq(s, 1, e - 1), 0))

(***************************************************************************)
(* Regular expressions.  A pattern is read left to right as a transformer  *)
(* of position sets: from the set P of positions (1..Len(s)+1, the index   *)
(* of the next character) where the match may stand, each piece gives the  *)
(* positions where it may stand after the piece.  RegExp.test(s) is true   *)
(* iff the final set is not empty.                                         *)
(***************************************************************************)

Positions(s) == 1..(Len(s) + 1)

Lit(s, P, w) ==
    {p + Len(w) : p \in {q \in P : q + Len(w) - 1 <= Len(s) /\ SubSeq(s, q, q + Len(w) - 1) = w}}

\* (?:w1|w2|...)
Alt(s, P, W) == UNION {Lit(s, P, w) : w \in W}

\* c+ and c* for a character class C.
Plus(s, P, C) ==
    UNION {{q \in (p + 1)..(Len(s) + 1) : \A k \in p..(q - 1) : Char(s, k) \in C} : p \in P}
Star(s, P, C) == P \cup Plus(s, P, C)

\* .* (any characters but line terminators)
AnyStar(s, P) ==
    UNION {{q \in p..(Len(s) + 1) : \A k \in p..(q - 1) : Char(s, k) \notin LineTerminators} : p \in P}

\* .{n,}
AnyAtLeast(s, P, n) == {q \in AnyStar(s, P) : \E p \in P : q >= p + n /\ q \in AnyStar(s, {p})}

IsWordAt(s, i) == i \in 1..Len(s) /\ Char(s, i) \in WordChars

\* \b
WB(s, P) == {p \in P : IsWordAt(s, p - 1) # IsWordAt(s, p)}

\* ^ and $ (no m flag)
AtStart == {1}
AtEnd(s, P) == P \cap {Len(s) + 1}

Min(S) == CHOOSE x \in S : \A y \in S : x <= y
Max(S) == CHOOSE x \in S : \A y \in S : x >= y


(***************************************************************************)
(* tokenEstimator.js: estimateResponseTokens                               *)
(***************************************************************************)

\* \s+, \s*, \d+, \w+
Sp(s, P) == Plus(s, P, SpaceChars)
SpOpt(s, P) == Star(s, P, SpaceChars)
Ds(s, P) == Plus(s, P, Digits)
Ws(s, P) == Plus(s, P, WordChars)

SmallQuantifiers == {"a", "an", "some", "few"}
YesNoVerbs ==
    {"is", "are", "was", "were", "do", "does", "did", "can", "could", "will", "would",
     "should", "has", "have", "had"}
FactualAttributes ==
    {"name", "capital", "population", "height", "age", "date", "time", "year", "color",
     "distance", "temperature", "size", "location"}
ArithmeticOperators == {"+", "-", "*", "/", "^"}

\* /\b<verb>\s+(\d+|a|an|some|few)\s+.*\b/ with <verb> itself a pattern prefix
SmallRequest(s, afterVerb) ==
    WB(s, AnyStar(s, Sp(s, Ds(s, Sp(s, afterVerb)) \cup Alt(s, Sp(s, afterVerb), SmallQuantifiers)))) # {}

\* /\b<verb>\s+\d+\s*[\+\-\*\/\^]\s*\d+\b/
SimpleCalculation(s, verb) ==
    WB(s, Ds(s, SpOpt(s, Alt(s, SpOpt(s, Ds(s, Sp(s, Lit(s, WB(s, Positions(s)), verb)))),
                             ArithmeticOperators)))) # {}

\* /^<head>.*\?$/ where the positions after <head> are given
QuestionFrom(s, afterHead) == AtEnd(s, Lit(s, AnyStar(s, afterHead), "?")) # {}

\* simpleFactualPatterns.some(pattern => pattern.test(lower)), lines 12-40
isSimpleFactualQuery(lower) ==
    LET wb == WB(lower, Positions(lower))
    IN \/ SmallRequest(lower, Lit(lower, wb, "name"))
       \/ SmallRequest(lower, Lit(lower, wb, "list"))
       \/ SmallRequest(lower, Lit(lower, wb, "give"))
       \/ SmallRequest(lower, Lit(lower, wb, "show"))
       \/ SmallRequest(lower, Lit(lower, Sp(lower, Lit(lower, wb, "tell")), "me"))
       \/ QuestionFrom(lower, WB(lower, Alt(lower, AtStart, YesNoVerbs)))
       \/ QuestionFrom(lower,
              Lit(lower, Sp(lower, Alt(lower, Sp(lower, Lit(lower, Sp(lower, Lit(lower, Sp(lower,
                  Lit(lower, AtStart, "what")), "is")), "the")), FactualAttributes)), "of"))
       \/ QuestionFrom(lower, WB(lower, Alt(lower, Sp(lower, Lit(lower, AtStart, "when")),
                                            {"was", "is", "did", "will"})))
       \/ QuestionFrom(lower, WB(lower, Lit(lower, Sp(lower, Lit(lower, AtStart, "where")), "is")))
       \/ QuestionFrom(lower, WB(lower, Alt(lower, Sp(lower, Lit(lower, AtStart, "who")),
                                            {"is", "was", "were"})))
       \/ WB(lower, AnyStar(lower, Sp(lower, Lit(lower, Sp(lower, AnyStar(lower, Sp(lower,
              Ds(lower, Sp(lower, Lit(lower, wb, "convert")))))), "to")))) # {}
       \/ SimpleCalculation(lower, "calculate")
       \/ SimpleCalculation(lower, "compute")
       \/ SimpleCalculation(lower, "solve")
       \/ WB(lower, Ws(lower, Sp(lower, Lit(lower, AtStart, "define")))) # {}
       \/ WB(lower, Lit(lower, Sp(lower, Ws(lower, Sp(lower, Lit(lower, Sp(lower,
              Lit(lower, AtStart, "what")), "does")))), "mean")) # {}
       \/ QuestionFrom(lower, WB(lower, Lit(lower, Sp(lower, Alt(lower, Sp(lower,
              Lit(lower, AtStart, "how")), {"many", "much", "tall", "old", "long", "far"})), "is")))

\* lower.match(/\b(\d+)\b/): the first whole number of the text, or NaN when there
\* is none (numberMatch is null).
firstNumber(lower) ==
    LET starts == {p \in WB(lower, Positions(lower)) :
                      /\ RunEnd(lower, p, Digits) > p
                      /\ WB(lower, {RunEnd(lower, p, Digits)}) # {}}
    IN IF starts = {} THEN NaN
       ELSE parseInt(SubSeq(lower, Min(starts), RunEnd(lower, Min(starts), Digits) - 1))

Max2(a, b) == IF a >= b THEN a ELSE b
Min2(a, b) == IF a <= b THEN a ELSE b

\* Lines 43-60: the estimate of a simple factual query, in tenths.
simpleFactualEstimate(lower, promptTokenCount) ==
    LET number == firstNumber(lower)
    IN IF ~number.nan /\ number.v10 <= 100
       THEN Num10(Max2(number.v10 * 10, 150))
       ELSE IF ~number.nan /\ number.v10 <= 1000
       THEN Num10(Max2(number.v10 * 5, 300))
       ELSE Num10(Max2(promptTokenCount * 12, 200))


\* A match with its two capture groups, or no match (null).
NoMatch == [found |-> FALSE, g1 |-> "", g2 |-> ""]
Match(a, b) == [found |-> TRUE, g1 |-> a, g2 |-> b]

WordFrom(s, p) == SubSeq(s, p, RunEnd(s, p, WordChars) - 1)
DigitsFrom(s, p) == SubSeq(s, p, RunEnd(s, p, Digits) - 1)

\* (?:a|an|the)? followed by Rest: the alternatives in the order the matcher tries
\* them (a, an, the, nothing); the first one after which Rest matches is taken.
WithArticle(s, p, Rest(_, _)) ==
    LET c == <<Lit(s, {p}, "a"), Lit(s, {p}, "an"), Lit(s, {p}, "the"), {p}>>
        ok == {i \in 1..4 : c[i] # {} /\ Rest(s, Min(c[i])).found}
    IN IF ok = {} THEN NoMatch ELSE Rest(s, Min(c[Min(ok)]))

CodeVerbs == {"write", "create", "generate", "make", "code", "program", "script", "develop"}
CodeNouns == {"code", "program", "script", "application", "app"}
LineWords == {"line", "lines"}

\* codeGenerationPatterns[0], line 66, from the optional article on:
\* \s*(\d+)\s*(?:line|lines)\s+(?:of\s+)?(?:code|...)?\s+(?:that\s+is\s+like\s+)?(?:in|using|with)?\s+(\w+)
StandardTail(s, q) ==
    LET d == RunEnd(s, q, SpaceChars)
        e == RunEnd(s, d, Digits)
        l == Sp(s, Alt(s, SpOpt(s, {e}), LineWords))
        o == l \cup Sp(s, Lit(s, l, "of"))
        c == Sp(s, o \cup Alt(s, o, CodeNouns))
        t == c \cup Sp(s, Lit(s, Sp(s, Lit(s, Sp(s, Lit(s, c, "that")), "is")), "like"))
        G == {g \in Sp(s, t \cup Alt(s, t, {"in", "using", "with"})) : IsWordAt(s, g)}
    IN IF e > d /\ G # {} THEN Match(DigitsFrom(s, d), WordFrom(s, Max(G))) ELSE NoMatch

StandardAt(s, p) ==
    LET v == Alt(s, {p}, CodeVerbs)
        a == RunEnd(s, Max(v), SpaceChars)
    IN IF v # {} /\ a > Max(v) THEN WithArticle(s, a, StandardTail) ELSE NoMatch

\* codeGenerationPatterns[1], line 69, from the optional article on:
\* \s*(\w+)\s+(?:code|...)\s+(?:that\s+is|of|which\s+is)?\s*(\d+)\s+(?:line|lines)
NeedWantTail(s, q) ==
    LET w == RunEnd(s, q, SpaceChars)
        e == RunEnd(s, w, WordChars)
        n == Sp(s, Alt(s, Sp(s, {e}), CodeNouns))
        t == n \cup Lit(s, Sp(s, Lit(s, n, "that")), "is") \cup Lit(s, n, "of")
               \cup Lit(s, Sp(s, Lit(s, n, "which")), "is")
        D == {d \in SpOpt(s, t) :
                 RunEnd(s, d, Digits) > d
                    /\ Alt(s, Sp(s, {RunEnd(s, d, Digits)}), LineWords) # {}}
    IN IF e > w /\ D # {} THEN Match(WordFrom(s, w), DigitsFrom(s, Max(D))) ELSE NoMatch

NeedWantAt(s, p) ==
    LET v == Alt(s, {p}, {"need", "want"})
        a == RunEnd(s, Max(v), SpaceChars)
    IN IF v # {} /\ a > Max(v) THEN WithArticle(s, a, NeedWantTail) ELSE NoMatch

\* codeGenerationPatterns[2], line 72, from the optional article on:
\* \s*(\w+)\s+(?:program|...)\s+(?:that|which)\s+is\s+(\d+)\s+(?:line|lines)
ReversedTail(s, q) ==
    LET w == RunEnd(s, q, SpaceChars)
        e == RunEnd(s, w, WordChars)
        D == {d \in Sp(s, Lit(s, Sp(s, Alt(s, Sp(s, Alt(s, Sp(s, {e}), CodeNouns)),
                                           {"that", "which"})), "is")) :
                 RunEnd(s, d, Digits) > d
                    /\ Alt(s, Sp(s, {RunEnd(s, d, Digits)}), LineWords) # {}}
    IN IF e > w /\ D # {} THEN Match(WordFrom(s, w), DigitsFrom(s, Max(D))) ELSE NoMatch

\* (?:need|want|create|make|write|generate)?\s+ at p, the verb tried first
ReversedAt(s, p) ==
    LET v == Alt(s, {p}, {"need", "want", "create", "make", "write", "generate"})
        withVerb == IF v # {} /\ RunEnd(s, Max(v), SpaceChars) > Max(v)
                    THEN WithArticle(s, RunEnd(s, Max(v), SpaceChars), ReversedTail)
                    ELSE NoMatch
    IN IF withVerb.found THEN withVerb
       ELSE IF RunEnd(s, p, SpaceChars) > p
       THEN WithArticle(s, RunEnd(s, p, SpaceChars), ReversedTail)
       ELSE NoMatch

\* codeGenerationPatterns[3], line 75: (\d+)\s+(?:line|lines)\s+(?:of)?\s+(\w+)
LinesOfAt(s, p) ==
    LET e == RunEnd(s, p, Digits)
        l == Sp(s, Alt(s, Sp(s, {e}), LineWords))
        G == {g \in Sp(s, l \cup Lit(s, l, "of")) : IsWordAt(s, g)}
    IN IF e > p /\ G # {} THEN Match(DigitsFrom(s, p), WordFrom(s, Max(G))) ELSE NoMatch

\* codeGenerationPatterns[4], line 76:
\* (\w+)\s+(?:program|code|script|app|application)\s+(?:that\s+is)?\s*(\d+)\s+(?:line|lines)
ProgramOfLinesAt(s, p) ==
    LET e == RunEnd(s, p, WordChars)
        n == Sp(s, Alt(s, Sp(s, {e}), CodeNouns))
        D == {d \in SpOpt(s, n \cup Lit(s, Sp(s, Lit(s, n, "that")), "is")) :
                 RunEnd(s, d, Digits) > d
                    /\ Alt(s, Sp(s, {RunEnd(s, d, Digits)}), LineWords) # {}}
    IN IF e > p /\ D # {} THEN Match(WordFrom(s, p), DigitsFrom(s, Max(D))) ELSE NoMatch

\* String.prototype.match with a pattern that is not anchored: the match at the
\* leftmost position where the pattern matches.
Leftmost(s, At(_, _)) ==
    LET starts == {p \in Positions(s) : At(s, p).found}
    IN IF starts = {} THEN NoMatch ELSE At(s, Min(starts))

\* lower.match(pattern) for pattern = codeGenerationPatterns[k - 1]
codeGenerationMatch(lower, k) ==
    CASE k = 1 -> Leftmost(lower, StandardAt)
      [] k = 2 -> Leftmost(lower, NeedWantAt)
      [] k = 3 -> Leftmost(lower, ReversedAt)
      [] k = 4 -> Leftmost(lower, LinesOfAt)
      [] k = 5 -> Leftmost(lower, ProgramOfLinesAt)

\* RegExp.prototype.source of the five patterns (lines 66-76).
codeGenerationPatternSource ==
    <<"(?:write|create|generate|make|code|program|script|develop)\\s+(?:a|an|the)?\\s*(\\d+)\\s*(?:line|lines)\\s+(?:of\\s+)?(?:code|program|script|application|app)?\\s+(?:that\\s+is\\s+like\\s+)?(?:in|using|with)?\\s+(\\w+)",
      "(?:need|want)\\s+(?:a|an|the)?\\s*(\\w+)\\s+(?:code|program|script|application|app)\\s+(?:that\\s+is|of|which\\s+is)?\\s*(\\d+)\\s+(?:line|lines)",
      "(?:need|want|create|make|write|generate)?\\s+(?:a|an|the)?\\s*(\\w+)\\s+(?:program|code|script|application|app)\\s+(?:that|which)\\s+is\\s+(\\d+)\\s+(?:line|lines)",
      "(\\d+)\\s+(?:line|lines)\\s+(?:of)?\\s+(\\w+)",
      "(\\w+)\\s+(?:program|code|script|app|application)\\s+(?:that\\s+is)?\\s*(\\d+)\\s+(?:line|lines)">>

startsWith(s, prefix) == Len(prefix) <= Len(s) /\ SubSeq(s, 1, Len(prefix)) = prefix

\* Lines 85-103: which group is the line count and which the language.  The
\* three tests read the pattern's source text.
languageFirst(source) ==
    \/ startsWith(source, "\\(\\?:need|want")
    \/ (~startsWith(source, "\\(\\d+")
          /\ includes(source, "\\w+\\)\\s+\\(\\?:program|code"))

lineCountOf(source, match) ==
    IF languageFirst(source) THEN parseInt(match.g2) ELSE parseInt(match.g1)
languageOf(source, match) ==
    IF languageFirst(source) THEN toLowerCase(match.g1) ELSE toLowerCase(match.g2)

\* tokensPerLine (lines 106-127); tokensPerLine[language] || tokensPerLine.default
tokensPerLine ==
    <<<<"python", 30>>, <<"javascript", 35>>, <<"typescript", 40>>, <<"java", 45>>,
      <<"c#", 40>>, <<"cpp", 35>>, <<"c++", 35>>, <<"ruby", 25>>, <<"go", 30>>,
      <<"rust", 40>>, <<"swift", 35>>, <<"kotlin", 35>>, <<"php", 40>>, <<"html", 25>>,
      <<"css", 20>>, <<"sql", 25>>, <<"r", 25>>, <<"bash", 20>>, <<"powershell", 30>>,
      <<"default", 35>>>>

avgTokensPerLine(language) ==
    LET hit == {i \in 1..Len(tokensPerLine) : tokensPerLine[i][1] = language}
    IN IF hit = {} THEN 35 ELSE tokensPerLine[Min(hit)][2]

\* The estimate of lines 129-133 without the cap.
uncappedCodeTokenEstimate(lineCount, language) ==
    IF lineCount.nan THEN NaN
    ELSE Num10((lineCount.v10 \div 10) * avgTokensPerLine(language) * 12)

\* Lines 129-138: Math.min(lineCount * avgTokensPerLine * 1.2, 120000), in tenths;
\* Math.min of NaN is NaN.
codeTokenEstimate(lineCount, language) ==
    IF lineCount.nan THEN NaN
    ELSE Num10(Min2((lineCount.v10 \div 10) * avgTokensPerLine(language) * 12, 1200000))

\* The index of the first of the five patterns that matches, 0 when none does.
firstCodePattern(lower) ==
    LET hit == {k \in 1..5 : codeGenerationMatch(lower, k).found}
    IN IF hit = {} THEN 0 ELSE Min(hit)

\* Lines 80-140: the loop over codeGenerationPatterns, returning at the first match.
codeGenerationEstimate(lower) ==
    LET k == firstCodePattern(lower)
        match == codeGenerationMatch(lower, k)
        source == codeGenerationPatternSource[k]
    IN codeTokenEstimate(lineCountOf(source, match), languageOf(source, match))

\* Lines 142-187, the older copy of the first pattern.  It is reached only when
\* the loop above did not return, that is when its own pattern does not match.
legacyCodeEstimate(lower) ==
    LET match == codeGenerationMatch(lower, 1)
        lineCount == parseInt(match.g1)
    IN IF lineCount.nan THEN NaN
       ELSE Num10(Min2((lineCount.v10 \div 10) * avgTokensPerLine(toLowerCase(match.g2)) * 10,
                       1200000))

\* sociopoliticalPatterns (lines 191-206): each is \b(?:...)\b
sociopoliticalPatterns ==
    <<{"government", "congress", "senate", "parliament", "democracy", "republic",
       "dictatorship", "monarchy"},
      {"healthcare", "universal healthcare", "medicare", "medicaid", "social security",
       "welfare", "tax", "taxation"},
      {"abortion", "gun control", "immigration", "racism", "inequality", "discrimination",
       "gender", "sexuality"},
      {"capitalism", "socialism", "communism", "economy", "wealth", "poverty", "class",
       "income"},
      {"foreign policy", "diplomacy", "war", "conflict", "treaty", "international",
       "global"},
      {"rights", "freedom", "liberty", "constitution", "amendment", "law", "regulation",
       "justice"},
      {"democrat", "republican", "liberal", "conservative", "progressive", "left wing",
       "right wing", "centrist"}>>

\* /\b(?:w1|w2|...)\b/.test(s)
WholeWord(s, W) == WB(s, Alt(s, WB(s, Positions(s)), W)) # {}

isWhyQuestion(lower) == WholeWord(lower, {"why", "reason", "explain why", "tell me why"})
containsSociopoliticalTopic(lower) ==
    \E k \in 1..Len(sociopoliticalPatterns) : WholeWord(lower, sociopoliticalPatterns[k])
hasOpinionIndicator(lower) ==
    WholeWord(lower, {"think", "opinion", "view", "stance", "position", "perspective",
                      "debate", "controversy"})

\* Lines 212-215
sociopoliticalWhyEstimate(promptTokenCount) == Num10(Max2(2000, promptTokenCount * 50))

\* Lines 218-227
sociopoliticalEstimate(lower, promptTokenCount) ==
    IF hasOpinionIndicator(lower) THEN Num10(Max2(1800, promptTokenCount * 45))
    ELSE Num10(Max2(1500, promptTokenCount * 40))

\* creativeWritingPatterns (lines 230-235)
isCreativeWriting(lower) ==
    LET wb == WB(lower, Positions(lower))
        verb == Sp(lower, Alt(lower, wb, {"write", "create", "generate", "make"}))
        art == SpOpt(lower, verb \cup Alt(lower, verb, {"a", "an", "some", "the"}))
        fan == SpOpt(lower, Lit(lower, art, "fan"))
        write == Sp(lower, Lit(lower, wb, "write"))
        wart == SpOpt(lower, write \cup Alt(lower, write, {"a", "an", "some", "the"}))
    IN \/ Alt(lower, art, {"story", "narrative", "tale", "fiction", "novel", "fanfic"}) # {}
       \/ Alt(lower, fan, {"fic", "fiction"}) # {}
       \/ Lit(lower, SpOpt(lower, Lit(lower, art, "short")), "story") # {}
       \/ Lit(lower, SpOpt(lower, Lit(lower, wb, "fan")), "fic") # {}
       \/ Alt(lower, Sp(lower, Alt(lower, wb, {"story", "narrative", "tale"})),
              {"about", "with", "featuring", "of", "where"}) # {}
       \/ Alt(lower, wart, {"creepy", "scary", "funny", "romantic", "dramatic", "epic",
                            "fantasy", "sci-fi", "adventure", "mystery", "thriller",
                            "horror"}) # {}

\* Lines 238-261
creativeWritingEstimate(lower, promptTokenCount) ==
    IF includes(lower, "fan fic") \/ includes(lower, "fanfic") \/ includes(lower, "fan fiction")
    THEN Num10(Max2(18000, promptTokenCount * 80))
    ELSE IF includes(lower, "short") \/ includes(lower, "brief")
    THEN Num10(Max2(7000, promptTokenCount * 50))
    ELSE IF includes(lower, "detailed") \/ includes(lower, "elaborate")
              \/ includes(lower, "long") \/ includes(lower, "comprehensive")
    THEN Num10(Max2(25000, promptTokenCount * 100))
    ELSE Num10(Max2(5000, promptTokenCount * 70))

\* (\d{n,}) at p followed by Rest: the digits run to the end of their run
DigitsAtLeast(s, p, n) == RunEnd(s, p, Digits) - p >= n

\* Line 264: (\d{2,})\s*(?:line|lines)\s+(?:of\s+)?(?:code|program|script|text|content)
LineCountAt(s, p) ==
    LET l == Sp(s, Alt(s, SpOpt(s, {RunEnd(s, p, Digits)}), LineWords))
    IN IF DigitsAtLeast(s, p, 2)
          /\ Alt(s, l \cup Sp(s, Lit(s, l, "of")),
                 {"code", "program", "script", "text", "content"}) # {}
       THEN Match(DigitsFrom(s, p), "") ELSE NoMatch

lineCountMatch(lower) == Leftmost(lower, LineCountAt)

\* Lines 271-279: the first language of the list that the prompt mentions
lineCountLanguages ==
    <<"python", "javascript", "java", "c#", "c\\+\\+", "ruby", "php", "go", "swift", "rust">>

lineCountTokensPerLine(lower) ==
    LET hit == {i \in 1..Len(lineCountLanguages) : includes(lower, lineCountLanguages[i])}
        lang == lineCountLanguages[Min(hit)]
    IN IF hit = {} THEN 35
       ELSE IF lang \in {"java", "c#"} THEN 45
       ELSE IF lang \in {"python", "ruby"} THEN 30
       ELSE 35

\* Lines 282-284: Math.min(lineCount * tokensPerLine * 1.2, 100000)
lineCountEstimate(lower) ==
    LET lineCount == parseInt(lineCountMatch(lower).g1)
    IN Num10(Min2((lineCount.v10 \div 10) * lineCountTokensPerLine(lower) * 12, 1000000))

\* Math.ceil(n / d) for n >= 0, d > 0
Ceil(n, d) == (n + d - 1) \div d

\* Line 288: (\d{3,})\s*(?:word|words|wor(?:ds)?)
WordCountAt(s, p) ==
    IF DigitsAtLeast(s, p, 3) /\ Lit(s, SpOpt(s, {RunEnd(s, p, Digits)}), "wor") # {}
    THEN Match(DigitsFrom(s, p), "") ELSE NoMatch

wordCountMatch(lower) == Leftmost(lower, WordCountAt)

\* Line 296: (?:write|create|generate|make)(?:\s+\w+){0,3}\s+(\d{3,})\s*(?:word|...)
WordCountAltAt(s, p) ==
    LET r0 == Alt(s, {p}, {"write", "create", "generate", "make"})
        r1 == Ws(s, Sp(s, r0))
        r2 == Ws(s, Sp(s, r1))
        r3 == Ws(s, Sp(s, r2))
        D == {d \in Sp(s, r0 \cup r1 \cup r2 \cup r3) : WordCountAt(s, d).found}
    IN IF D # {} THEN WordCountAt(s, Max(D)) ELSE NoMatch

wordCountAltMatch(lower) == Leftmost(lower, WordCountAltAt)

\* Lines 289-300: Math.ceil(wordCount * 1.3)
wordCountEstimate(lower) ==
    LET match == IF wordCountMatch(lower).found THEN wordCountMatch(lower)
                 ELSE wordCountAltMatch(lower)
    IN Num(Ceil((parseInt(match.g1).v10 \div 10) * 13, 10))

\* Line 303: (\d+)\s+page(s)?\s+(essay|story|article|text|paper|document|response|writing)
PageCountAt(s, p) ==
    LET pg == Lit(s, Sp(s, {RunEnd(s, p, Digits)}), "page")
    IN IF DigitsAtLeast(s, p, 1)
          /\ Alt(s, Sp(s, pg \cup Lit(s, pg, "s")),
                 {"essay", "story", "article", "text", "paper", "document", "response",
                  "writing"}) # {}
       THEN Match(DigitsFrom(s, p), "") ELSE NoMatch

pageCountMatch(lower) == Leftmost(lower, PageCountAt)

\* Lines 304-308: Math.ceil(pageCount * 500 * 1.3)
pageCountEstimate(lower) == Num((parseInt(pageCountMatch(lower).g1).v10 \div 10) * 650)

\* Line 311: \btell\s+(?:me|us)\s+(?:about|why|how)\s+.{3,}
tellMeAboutMatch(lower) ==
    AnyAtLeast(lower,
               Sp(lower, Alt(lower, Sp(lower, Alt(lower, Sp(lower,
                   Lit(lower, WB(lower, Positions(lower)), "tell")), {"me", "us"})),
                   {"about", "why", "how"})),
               3) # {}

\* Lines 312-316
tellMeAboutEstimate(promptTokenCount) == Num10(Max2(1200, promptTokenCount * 35))

\* contentTypes (lines 319-687), in the object's key order; a key written twice keeps
\* its first place and its last value.
contentTypes ==
    <<<<"essay", 2000>>, <<"story", 1500>>, <<"poem", 300>>, <<"novel", 3000>>,
      <<"book", 3000>>, <<"screenplay", 2000>>, <<"script", 1500>>, <<"fan fic", 1800>>,
      <<"fanfic", 1800>>, <<"fan fiction", 1800>>, <<"fanfiction", 1800>>,
      <<"analysis", 1000>>, <<"report", 1200>>, <<"review", 800>>, <<"summary", 500>>,
      <<"outline", 400>>, <<"tweet", 15>>, <<"headline", 10>>, <<"title", 10>>,
      <<"caption", 20>>, <<"slogan", 15>>, <<"dissertation", 5000>>, <<"thesis", 4000>>,
      <<"research paper", 2500>>, <<"term paper", 1800>>, <<"assignment", 1200>>,
      <<"lecture", 2000>>, <<"case study", 1500>>, <<"presentation", 1000>>,
      <<"syllabus", 700>>, <<"lesson plan", 800>>, <<"study guide", 1200>>,
      <<"literature review", 2000>>, <<"annotated bibliography", 1000>>,
      <<"concept map", 400>>, <<"lab report", 1000>>, <<"bibliography", 500>>,
      <<"abstract", 200>>, <<"conference paper", 1800>>, <<"monograph", 3500>>,
      <<"textbook chapter", 2500>>, <<"short story", 1200>>, <<"novella", 2500>>,
      <<"flash fiction", 300>>, <<"memoir", 2500>>, <<"biography", 3000>>,
      <<"autobiography", 3000>>, <<"fairy tale", 1000>>, <<"fable", 700>>, <<"myth", 900>>,
      <<"legend", 1000>>, <<"epic", 2500>>, <<"sonnet", 150>>, <<"haiku", 30>>,
      <<"limerick", 70>>, <<"ballad", 400>>, <<"song lyrics", 300>>, <<"play", 2000>>,
      <<"monologue", 500>>, <<"dialogue", 700>>, <<"character profile", 600>>,
      <<"setting description", 500>>, <<"plot outline", 800>>, <<"business plan", 3000>>,
      <<"proposal", 1500>>, <<"memo", 400>>, <<"executive summary", 600>>,
      <<"swot analysis", 800>>, <<"market analysis", 1500>>, <<"financial report", 1800>>,
      <<"annual report", 2500>>, <<"white paper", 2000>>, <<"case brief", 1000>>,
      <<"project plan", 1500>>, <<"risk assessment", 1200>>, <<"feasibility study", 1800>>,
      <<"business letter", 300>>, <<"invoice", 200>>, <<"receipt", 150>>, <<"contract", 1500>>,
      <<"agreement", 1200>>, <<"minutes", 800>>, <<"agenda", 400>>, <<"status report", 700>>,
      <<"technical manual", 2500>>, <<"user guide", 1800>>, <<"specification", 1200>>,
      <<"api documentation", 1500>>, <<"code documentation", 1000>>,
      <<"troubleshooting guide", 1200>>, <<"installation guide", 800>>,
      <<"configuration guide", 1000>>, <<"reference manual", 2000>>,
      <<"system architecture", 1500>>, <<"flowchart", 500>>, <<"diagram", 400>>,
      <<"schema", 600>>, <<"protocol", 900>>, <<"readme", 400>>, <<"changelog", 500>>,
      <<"release notes", 600>>, <<"technical spec", 1400>>, <<"algorithm", 700>>,
      <<"pseudocode", 500>>, <<"blog post", 800>>, <<"article", 1000>>, <<"newsletter", 800>>,
      <<"email", 300>>, <<"landing page", 500>>, <<"about page", 400>>, <<"faq", 600>>,
      <<"product description", 250>>, <<"social media post", 50>>, <<"forum post", 300>>,
      <<"comment", 100>>, <<"review comment", 200>>, <<"listicle", 1000>>,
      <<"how-to guide", 1200>>, <<"tutorial", 1500>>, <<"infographic text", 400>>,
      <<"quiz", 600>>, <<"poll", 200>>, <<"survey", 800>>, <<"podcast script", 1500>>,
      <<"webinar script", 1800>>, <<"cover letter", 400>>, <<"resume", 500>>, <<"cv", 700>>,
      <<"personal statement", 800>>, <<"recommendation letter", 500>>,
      <<"reference letter", 500>>, <<"thank you note", 150>>, <<"invitation", 200>>,
      <<"condolence letter", 300>>, <<"complaint letter", 400>>, <<"apology", 250>>,
      <<"congratulatory message", 200>>, <<"greeting card", 100>>, <<"diary entry", 500>>,
      <<"journal entry", 600>>, <<"movie review", 800>>, <<"book review", 700>>,
      <<"music review", 600>>, <<"game review", 900>>, <<"film analysis", 1200>>,
      <<"movie synopsis", 700>>, <<"show notes", 500>>, <<"interview questions", 600>>,
      <<"interview transcript", 1800>>, <<"podcast transcript", 2000>>, <<"speech", 1200>>,
      <<"toast", 200>>, <<"eulogy", 500>>, <<"roast", 600>>, <<"comedy routine", 900>>,
      <<"storyboard", 700>>, <<"game design document", 2000>>, <<"character sheet", 500>>,
      <<"legal brief", 2000>>, <<"affidavit", 800>>, <<"deposition", 1500>>, <<"will", 600>>,
      <<"trust", 1000>>, <<"patent application", 2000>>, <<"trademark application", 1500>>,
      <<"license agreement", 1200>>, <<"privacy policy", 1000>>, <<"terms of service", 1500>>,
      <<"disclaimer", 300>>, <<"statement of work", 1000>>, <<"cease and desist", 500>>,
      <<"legal opinion", 1200>>, <<"court filing", 1800>>, <<"motion", 1000>>,
      <<"press release", 500>>, <<"brochure", 600>>, <<"flyer", 300>>, <<"pamphlet", 400>>,
      <<"catalog", 1500>>, <<"advertisement", 200>>, <<"marketing email", 400>>,
      <<"campaign proposal", 1200>>, <<"value proposition", 300>>, <<"elevator pitch", 150>>,
      <<"tagline", 10>>, <<"mission statement", 200>>, <<"vision statement", 200>>,
      <<"brand story", 700>>, <<"promotional copy", 500>>, <<"sales letter", 800>>,
      <<"case testimonial", 400>>, <<"worksheet", 600>>, <<"quiz questions", 500>>,
      <<"test", 800>>, <<"exam", 1000>>, <<"answer key", 600>>, <<"rubric", 400>>,
      <<"curriculum", 1500>>, <<"glossary", 800>>, <<"definition list", 500>>,
      <<"study notes", 1000>>, <<"flashcards", 400>>, <<"cheat sheet", 300>>,
      <<"formula sheet", 200>>, <<"timeline", 600>>, <<"historical account", 1200>>,
      <<"scientific paper", 2500>>, <<"experiment protocol", 1000>>, <<"hypothesis", 200>>,
      <<"methodology", 800>>, <<"data analysis", 1000>>, <<"statistical report", 1200>>,
      <<"findings summary", 700>>, <<"research proposal", 1800>>,
      <<"grant application", 2000>>, <<"patent description", 1500>>,
      <<"clinical trial design", 1800>>, <<"medical history", 1000>>,
      <<"diagnostic report", 800>>, <<"autopsy report", 1200>>, <<"drug information", 900>>,
      <<"recipe", 400>>, <<"travel itinerary", 600>>, <<"packing list", 300>>,
      <<"checklist", 400>>, <<"instructions", 700>>, <<"manual", 1500>>, <<"guidebook", 2000>>,
      <<"handbook", 1800>>, <<"dictionary entry", 150>>, <<"encyclopedia entry", 800>>,
      <<"rule book", 1200>>, <<"transcript", 1500>>, <<"translation", 1000>>,
      <<"paraphrase", 800>>, <<"critique", 1000>>, <<"evaluation", 900>>,
      <<"assessment", 800>>, <<"testimonial", 300>>, <<"anthology", 3000>>,
      <<"collection", 2500>>, <<"compilation", 2000>>, <<"catalog entry", 250>>,
      <<"menu", 300>>, <<"itinerary", 500>>, <<"schedule", 400>>, <<"program", 500>>,
      <<"bulletin", 600>>, <<"leaflet", 400>>, <<"manifesto", 1000>>, <<"proclamation", 700>>,
      <<"decree", 500>>, <<"resolution", 600>>, <<"policy", 900>>, <<"regulation", 1000>>,
      <<"statute", 1200>>, <<"ordinance", 1000>>, <<"code of conduct", 800>>,
      <<"user agreement", 1200>>, <<"subscription terms", 900>>, <<"rental agreement", 800>>,
      <<"lease", 1000>>, <<"deed", 700>>, <<"certificate", 200>>, <<"diploma", 150>>,
      <<"credential", 200>>, <<"badge description", 150>>, <<"achievement", 300>>,
      <<"award nomination", 500>>, <<"obituary", 400>>, <<"bulletin board post", 200>>,
      <<"classified ad", 100>>, <<"job description", 500>>, <<"job posting", 600>>,
      <<"application form", 400>>, <<"feedback form", 300>>, <<"evaluation form", 500>>,
      <<"survey questions", 700>>, <<"questionnaire", 800>>, <<"census form", 600>>,
      <<"demographic report", 900>>, <<"weather report", 300>>, <<"traffic report", 250>>,
      <<"stock analysis", 1000>>, <<"trend report", 1200>>, <<"forecast", 800>>,
      <<"prediction", 500>>, <<"horoscope", 300>>, <<"fortune", 100>>, <<"riddle", 150>>,
      <<"puzzle", 200>>, <<"crossword clue", 50>>, <<"sudoku hint", 100>>,
      <<"game rules", 700>>, <<"formula description", 400>>, <<"theorem explanation", 500>>,
      <<"proof", 800>>, <<"axiom", 150>>, <<"postulate", 300>>, <<"definition", 200>>,
      <<"debate script", 1500>>, <<"argument", 800>>, <<"rebuttal", 600>>,
      <<"counterargument", 700>>, <<"persuasive essay", 1800>>, <<"op-ed", 1000>>,
      <<"editorial", 900>>, <<"column", 800>>, <<"advice column", 700>>,
      <<"ask me anything", 1500>>, <<"confession", 500>>, <<"secret", 200>>, <<"gossip", 300>>,
      <<"rumor", 250>>, <<"news bulletin", 400>>, <<"breaking news", 300>>,
      <<"weather alert", 200>>, <<"emergency notice", 300>>, <<"recall notice", 400>>,
      <<"public service announcement", 500>>, <<"safety instruction", 600>>,
      <<"warning label", 150>>, <<"nutrition facts", 200>>, <<"ingredient list", 300>>,
      <<"allergen information", 200>>, <<"food label", 150>>, <<"menu description", 300>>,
      <<"cocktail recipe", 250>>, <<"wine description", 200>>, <<"beer review", 350>>,
      <<"tasting notes", 300>>, <<"product review", 700>>, <<"user review", 400>>,
      <<"critical review", 900>>, <<"peer review", 1000>>>>

\* contentTypes[type], 0 for a key the table does not have (undefined)
contentTypeTokens(type) ==
    LET hit == {i \in 1..Len(contentTypes) : contentTypes[i][1] = type}
    IN IF hit = {} THEN 0 ELSE contentTypes[Min(hit)][2]

\* fuzzyContentTypes (lines 690-698)
fuzzyContentTypes ==
    <<<<"fic", "fanfiction">>, <<"fiction", "story">>, <<"fictional", "story">>,
      <<"narrative", "story">>, <<"fable", "story">>, <<"prose", "story">>>>

\* Lines 701-708: the first fuzzy type the prompt includes whose canonical type has
\* a truthy entry; 0 when there is none
fuzzyContentTypeMatch(lower) ==
    LET hit == {i \in 1..Len(fuzzyContentTypes) :
                   includes(lower, fuzzyContentTypes[i][1])
                      /\ contentTypeTokens(fuzzyContentTypes[i][2]) # 0}
    IN IF hit = {} THEN 0 ELSE Min(hit)

\* Lines 713-725, the three tests made for one content type:
\* (?:write|create|generate|make)\s+(?:an?|the)?\s+TYPE\b, \bTYPE\s+(?:about|on|for|regarding)\b
\* and lower.includes(TYPE).  afterVerb is where the first pattern is before TYPE.
mentionsContentType(lower, afterVerb, type) ==
    \/ WB(lower, Lit(lower, afterVerb, type)) # {}
    \/ WB(lower, Alt(lower, Sp(lower, Lit(lower, WB(lower, Positions(lower)), type)),
                     {"about", "on", "for", "regarding"})) # {}
    \/ includes(lower, type)

\* Lines 711-726: the first content type, in table order, that the prompt mentions
contentTypeMatch(lower) ==
    LET verb == Sp(lower, Alt(lower, Positions(lower), {"write", "create", "generate", "make"}))
        afterVerb == Sp(lower, verb \cup Alt(lower, verb, {"a", "an", "the"}))
        hit == {i \in 1..Len(contentTypes) :
                   mentionsContentType(lower, afterVerb, contentTypes[i][1])}
    IN IF hit = {} THEN 0 ELSE Min(hit)

hasContentType(lower) == fuzzyContentTypeMatch(lower) # 0 \/ contentTypeMatch(lower) # 0

contentTypeEstimate(lower) ==
    IF fuzzyContentTypeMatch(lower) # 0
    THEN Num(contentTypeTokens(fuzzyContentTypes[fuzzyContentTypeMatch(lower)][2]))
    ELSE Num(contentTypes[contentTypeMatch(lower)][2])

\* numericIndicators (lines 729-747)
\* (\d+)k\s*word
KWordAt(s, p) ==
    IF DigitsAtLeast(s, p, 1)
          /\ Lit(s, SpOpt(s, Lit(s, {RunEnd(s, p, Digits)}, "k")), "word") # {}
    THEN Match(DigitsFrom(s, p), "") ELSE NoMatch

\* (\d+),(\d{3})\s*word
CommaWordAt(s, p) ==
    LET c == Lit(s, {RunEnd(s, p, Digits)}, ",")
        d == Min(c)
    IN IF DigitsAtLeast(s, p, 1) /\ c # {} /\ DigitsAtLeast(s, d, 3)
          /\ Lit(s, SpOpt(s, {d + 3}), "word") # {}
       THEN Match(DigitsFrom(s, p), SubSeq(s, d, d + 2)) ELSE NoMatch

wordToNum == <<"one", "two", "three", "four", "five", "six", "seven", "eight", "nine", "ten">>

\* (one|two|...|ten)\s+thousand\s+word
ThousandWordAt(s, p) ==
    LET hit == {i \in 1..Len(wordToNum) :
                   Lit(s, Sp(s, Lit(s, Sp(s, Lit(s, {p}, wordToNum[i])), "thousand")),
                       "word") # {}}
    IN IF hit = {} THEN NoMatch ELSE Match(wordToNum[Min(hit)], "")

\* \b(a|one)\s+thousand\s+word  and  \b(few|couple(\s+of)?|several)\s+thousand\s+word
ThousandWordAfter(s, W) ==
    Lit(s, Sp(s, Lit(s, Sp(s, Alt(s, WB(s, Positions(s)), W)), "thousand")), "word") # {}

numericIndicatorMatch(lower, k) ==
    CASE k = 1 -> Leftmost(lower, KWordAt)
      [] k = 2 -> Leftmost(lower, CommaWordAt)
      [] k = 3 -> Leftmost(lower, ThousandWordAt)
      [] k = 4 -> IF ThousandWordAfter(lower, {"a", "one"}) THEN Match("", "") ELSE NoMatch
      [] k = 5 -> IF ThousandWordAfter(lower, {"few", "several"})
                     \/ Lit(lower, Sp(lower, Lit(lower, Sp(lower, Lit(lower, Sp(lower,
                            Lit(lower, WB(lower, Positions(lower)), "couple")), "of")),
                            "thousand")), "word") # {}
                     \/ ThousandWordAfter(lower, {"couple"})
                  THEN Match("", "") ELSE NoMatch

firstNumericIndicator(lower) ==
    LET hit == {k \in 1..5 : numericIndicatorMatch(lower, k).found}
    IN IF hit = {} THEN 0 ELSE Min(hit)

\* Lines 749-759: Math.ceil(words * 1.3) for the words the indicator stands for
numericIndicatorEstimate(lower) ==
    LET k == firstNumericIndicator(lower)
        match == numericIndicatorMatch(lower, k)
        words == CASE k = 1 -> (parseInt(match.g1).v10 \div 10) * 1000
                   [] k = 2 -> parseInt(match.g1 \o match.g2).v10 \div 10
                   [] k = 3 -> 1000 * (CHOOSE i \in 1..Len(wordToNum) : wordToNum[i] = match.g1)
                   [] k = 4 -> 1000
                   [] k = 5 -> 3000
    IN Num(Ceil(words * 13, 10))

\* styles (lines 762-774) and the multipliers applied to styleMultiplier at lines
\* 853-867, in tenths; styleMultiplier starts at 2.0
styles ==
    <<<<"shakespeare", 15>>, <<"shakespearean", 15>>, <<"victorian", 14>>,
      <<"academic", 13>>, <<"technical", 12>>, <<"detailed", 15>>,
      <<"comprehensive", 17>>, <<"thorough", 16>>, <<"brief", 7>>, <<"concise", 6>>,
      <<"terse", 5>>>>

\* The product of the factors of the table's entries that the prompt includes, as
\* a fraction [num, den]
RECURSIVE FactorProduct(_, _, _)
FactorProduct(lower, table, i) ==
    IF i > Len(table) THEN [num |-> 1, den |-> 1]
    ELSE LET rest == FactorProduct(lower, table, i + 1)
         IN IF includes(lower, table[i][1])
            THEN [num |-> table[i][2] * rest.num, den |-> 10 * rest.den]
            ELSE rest

\* Lines 787-791
isListRequest(lower) ==
    \/ includes(lower, "list")
    \/ Alt(lower, Sp(lower, Ds(lower, Positions(lower))),
           {"things", "ways", "steps", "tips"}) # {}

\* Line 794: (\d+)\s+(things|ways|steps|tips|items|examples|reasons|factors|methods)
ListCountAt(s, p) ==
    IF DigitsAtLeast(s, p, 1)
          /\ Alt(s, Sp(s, {RunEnd(s, p, Digits)}),
                 {"things", "ways", "steps", "tips", "items", "examples", "reasons",
                  "factors", "methods"}) # {}
    THEN Match(DigitsFrom(s, p), "") ELSE NoMatch

listCountMatch(lower) == Leftmost(lower, ListCountAt)

\* Lines 795-802
listEstimate(lower) ==
    IF listCountMatch(lower).found
    THEN Num((parseInt(listCountMatch(lower).g1).v10 \div 10) * 50 + 200)
    ELSE Num(500)

\* lengthIndicators (lines 806-822), in tenths
lengthIndicators ==
    <<<<"detailed", 15>>, <<"comprehensive", 20>>, <<"thorough", 18>>, <<"in-depth", 17>>,
      <<"elaborate", 16>>, <<"extensive", 19>>, <<"long", 15>>, <<"lengthy", 16>>,
      <<"exhaustive", 20>>, <<"complete", 15>>, <<"brief", 7>>, <<"concise", 6>>,
      <<"short", 5>>, <<"quick", 5>>, <<"summary", 6>>>>

\* Lines 825-830
lengthMultiplier(lower) == FactorProduct(lower, lengthIndicators, 1)

\* Line 833: lower.match(/^why\s+/i) || lower.includes(" why ")
isBareWhy(lower) == Sp(lower, Lit(lower, AtStart, "why")) # {} \/ includes(lower, " why ")

\* Line 834
bareWhyEstimate(promptTokenCount) == Num10(Max2(1300, promptTokenCount * 35))

\* Lines 841-845
contentCreationIndicators ==
    {"write", "create", "generate", "produce", "compose", "author", "draft", "make"}
isContentCreationRequest(lower) == \E w \in contentCreationIndicators : includes(lower, w)

\* Lines 849-851, in tenths
baseEstimate(lower, promptTokenCount) ==
    IF isContentCreationRequest(lower) THEN Max2(promptTokenCount * 30, 3000)
    ELSE Max2(promptTokenCount * 15, 1000)

\* Lines 777-784 and 853-867: styleMultiplier, as a fraction.  The return statement
\* of line 870 does not read it.
styleMultiplier(lower) ==
    LET t == FactorProduct(lower, styles, 1)
        f(c, n) == IF c THEN n ELSE 10
        a == f(includes(lower, "explain") \/ includes(lower, "why"), 13)
        b == f(includes(lower, "detail") \/ includes(lower, "thorough"), 14)
        c == f(includes(lower, "compare") \/ includes(lower, "contrast"), 15)
        d == f(includes(lower, "analyze") \/ includes(lower, "evaluate"), 16)
    IN [num |-> 2 * t.num * a * b * c * d, den |-> t.den * 10000]

\* Line 870: Math.max(Math.ceil(baseEstimate * lengthMultiplier), 20)
fallbackEstimate(lower, promptTokenCount) ==
    LET m == lengthMultiplier(lower)
    IN Num(Max2(Ceil(baseEstimate(lower, promptTokenCount) * m.num, 10 * m.den), 20))

\* Lines 189-871: the families after the code request with a line count; the
\* first branch whose test holds returns.
laterFamiliesEstimate(lower, promptTokenCount) ==
    IF isWhyQuestion(lower) /\ containsSociopoliticalTopic(lower)
    THEN sociopoliticalWhyEstimate(promptTokenCount)
    ELSE IF containsSociopoliticalTopic(lower)
    THEN sociopoliticalEstimate(lower, promptTokenCount)
    ELSE IF isCreativeWriting(lower) THEN creativeWritingEstimate(lower, promptTokenCount)
    ELSE IF lineCountMatch(lower).found THEN lineCountEstimate(lower)
    ELSE IF wordCountMatch(lower).found \/ wordCountAltMatch(lower).found
    THEN wordCountEstimate(lower)
    ELSE IF pageCountMatch(lower).found THEN pageCountEstimate(lower)
    ELSE IF tellMeAboutMatch(lower) THEN tellMeAboutEstimate(promptTokenCount)
    ELSE IF hasContentType(lower) THEN contentTypeEstimate(lower)
    ELSE IF firstNumericIndicator(lower) # 0 THEN numericIndicatorEstimate(lower)
    ELSE IF isListRequest(lower) THEN listEstimate(lower)
    ELSE IF isBareWhy(lower) THEN bareWhyEstimate(promptTokenCount)
    ELSE fallbackEstimate(lower, promptTokenCount)

\* estimateResponseTokens with the test for a code request moved above the test
\* for a simple factual query.
estimateCodeRequestFirst(prompt, promptTokenCount) ==
    LET lower == toLowerCase(prompt)
    IN IF firstCodePattern(lower) # 0 THEN codeGenerationEstimate(lower)
       ELSE IF isSimpleFactualQuery(lower)
       THEN simpleFactualEstimate(lower, promptTokenCount)
       ELSE laterFamiliesEstimate(lower, promptTokenCount)

\* estimateResponseTokens(prompt, promptTokenCount), lines 7-872: the first branch
\* whose test holds returns.
estimateResponseTokens(prompt, promptTokenCount) ==
    LET lower == toLowerCase(prompt)
    IN IF isSimpleFactualQuery(lower) THEN simpleFactualEstimate(lower, promptTokenCount)
       ELSE IF firstCodePattern(lower) # 0 THEN codeGenerationEstimate(lower)
       ELSE IF codeGenerationMatch(lower, 1).found THEN legacyCodeEstimate(lower)
       ELSE laterFamiliesEstimate(lower, promptTokenCount)

(***************************************************************************)
(* index.js: the classifiers, the energy computation and the command-line  *)
(* interface                                                               *)
(***************************************************************************)

\* Lines 42-116
complexReasoningIndicators ==
    <<"ethics", "impact", "philosophy", "moral", "ethical", "values", "justice", "rights",
      "duty", "virtue", "consequentialism", "deontology", "utilitarianism", "existentialism",
      "metaphysics", "epistemology", "ontology", "axiological", "normative", "metaethics",
      "teleology", "nihilism", "relativism", "absolutism", "hedonism", "stoicism",
      "determinism", "free will", "consciousness", "analyze", "critique", "evaluate", "assess",
      "examine", "investigate", "review", "scrutinize", "critical analysis",
      "critical thinking", "deconstruct", "implications", "ramifications", "nuances",
      "logical fallacies", "biases", "counterarguments", "limitations", "strengths",
      "weaknesses", "validity", "sound argument", "premise", "inference", "deduction",
      "induction", "syllogism", "dialectic", "rhetoric", "logical consistency", "coherence",
      "correlation", "causation", "confounding variables", "statistical significance",
      "methodological", "create an ai", "make an ai", "design an ai",
      "artificial intelligence", "neural network", "machine learning", "deep learning",
      "reinforcement learning", "supervised learning", "unsupervised learning",
      "natural language processing", "computer vision", "transformer", "attention mechanism",
      "bert", "gpt", "llm", "large language model", "fine-tuning", "embedding",
      "vectorization", "tokenization", "semantic", "latent space", "generative model",
      "discriminative model", "adversarial network", "backpropagation", "gradient descent",
      "overfitting", "underfitting", "regularization", "hyperparameter", "optimization",
      "solve", "optimization problem", "algorithm complexity", "computational complexity",
      "np-complete", "np-hard", "big o notation", "heuristic", "approximation algorithm",
      "dynamic programming", "greedy algorithm", "divide and conquer", "backtracking",
      "branch and bound", "graph theory", "mathematical proof", "theorem", "lemma",
      "corollary", "axiomatic", "mathematical induction", "system design", "architecture",
      "scalability", "fault tolerance", "load balancing", "distributed systems",
      "microservices", "monolithic", "serverless", "cloud native", "containerization",
      "orchestration", "service mesh", "api gateway", "event-driven", "cqrs", "event sourcing",
      "domain driven design", "bounded context", "ubiquitous language", "research",
      "hypothesis", "scientific method", "control group", "experimental design", "variables",
      "confounding", "correlation", "causation", "statistical analysis", "literature review",
      "meta-analysis", "systematic review", "peer review", "empirical",
      "theoretical framework", "conceptual model", "paradigm", "qualitative research",
      "quantitative research", "mixed methods", "longitudinal", "cross-sectional", "cohort",
      "why is", "why are", "why does", "why do", "why can", "why should", "why would",
      "why might", "why has", "why have", "root cause", "fundamental reason",
      "underlying principles", "philosophical basis", "theoretical underpinning",
      "conceptual foundation", "first principles", "epistemological", "ontological",
      "explain why", "rationalize", "justify", "elucidate", "sociopolitical", "socioeconomic",
      "geopolitical", "cultural implications", "social construct", "social dynamics",
      "power structures", "economic systems", "political theory", "governance",
      "policy analysis", "institutional analysis", "stakeholder analysis",
      "comparative analysis", "historical context", "societal impact", "demographic factors",
      "social inequality", "systemic issues", "marginalization", "privilege",
      "intersectionality", "sustainability", "cybersecurity", "threat model",
      "vulnerability assessment", "risk analysis", "attack vector", "exploit",
      "mitigation strategy", "security protocol", "cryptographic", "encryption",
      "authentication", "authorization", "zero trust", "defense in depth",
      "security architecture", "penetration testing", "red team", "blue team",
      "security audit", "compliance", "regulatory", "quantum computing", "blockchain",
      "cryptography", "game theory", "complexity theory", "systems thinking", "chaos theory",
      "emergent behavior", "cognitive science", "neuroscience", "psycholinguistics",
      "thermodynamics", "relativity", "quantum mechanics", "information theory",
      "network theory", "control theory", "optimization theory", "decision theory",
      "category theory", "topology", "group theory", "linear algebra", "calculus",
      "differential equations", "statistics", "probability theory", "bayesian inference",
      "stochastic processes", "markov chains", "monte carlo simulation",
      "computational linguistics", "semantic analysis", "discourse analysis", "pragmatics",
      "semiotics", "hermeneutics", "phenomenology", "structuralism", "post-structuralism",
      "deconstruction", "critical theory", "literary theory", "media studies",
      "cultural studies", "anthropological theory", "sociological theory",
      "psychological theory", "cognitive theory", "developmental theory",
      "evolutionary theory", "ecological theory", "systems theory">>

\* Lines 119-201
moderateReasoningIndicators ==
    <<"how to", "how do", "how does", "how can", "how would", "how should", "how might",
      "how is", "how are", "instructions for", "steps to", "guide for", "tutorial on",
      "process for", "procedure for", "method for", "approach to", "technique for",
      "strategy for", "best practices", "compare", "contrast", "versus", "vs",
      "difference between", "similarities between", "advantages and disadvantages",
      "pros and cons", "benefits and drawbacks", "upsides and downsides",
      "strengths and weaknesses", "positive and negative", "better than", "worse than",
      "preferred over", "compared to", "in relation to", "relative to", "in comparison with",
      "as opposed to", "explain", "describe", "clarify", "elaborate on", "elucidate",
      "illustrate", "demonstrate", "show how", "walk through", "break down", "outline",
      "summarize", "overview", "introduction to", "description of", "summary of",
      "synopsis of", "rundown of", "briefing on", "primer on", "build", "implement", "create",
      "develop", "establish", "set up", "construct", "generate", "produce", "make", "design",
      "architect", "engineer", "draft", "compose", "formulate", "devise", "conceive",
      "fabricate", "assemble", "configure", "install", "deploy", "provision", "write code",
      "program", "code", "script", "debug", "troubleshoot", "refactor", "optimize", "test",
      "unit test", "integration test", "end-to-end test", "benchmark", "profile",
      "performance tune", "memory management", "garbage collection", "concurrency",
      "parallelism", "synchronization", "asynchronous", "callback", "promise", "async/await",
      "multithreading", "solution to", "solve for", "resolve", "address", "handle", "manage",
      "deal with", "tackle", "approach", "strategy for", "method for", "technique for",
      "algorithm for", "recipe for", "fix", "patch", "workaround", "bypass", "mitigate",
      "alleviate", "remedy", "treat", "process data", "analyze data", "data analysis",
      "data processing", "data transformation", "extract", "transform", "load", "etl", "parse",
      "filter", "sort", "group", "aggregate", "join", "merge", "union", "intersect",
      "difference", "normalize", "denormalize", "index", "query", "search", "retrieve",
      "fetch", "store", "persist", "cache", "buffer", "batch", "web development",
      "app development", "front-end", "back-end", "full-stack", "client-side", "server-side",
      "database", "api", "rest", "graphql", "soap", "http", "https", "tcp/ip", "dns",
      "routing", "middleware", "authentication", "authorization", "session management",
      "state management", "data binding", "templating", "responsive design", "mobile first",
      "framework", "library", "toolkit", "sdk", "api", "ide", "editor", "compiler",
      "interpreter", "runtime", "virtual machine", "container", "docker", "kubernetes",
      "terraform", "ansible", "jenkins", "ci/cd", "git", "version control", "package manager",
      "dependency management", "report on", "dashboard", "metrics", "kpi", "analytics",
      "visualization", "chart", "graph", "plot", "histogram", "scatter plot", "line chart",
      "bar chart", "pie chart", "heat map", "treemap", "funnel chart", "gauge chart",
      "sparkline", "data table", "pivot table", "learn about", "understand", "comprehend",
      "grasp", "master", "study", "research", "examine", "investigate", "explore", "discover",
      "uncover", "find out", "determine", "ascertain", "identify", "recognize", "distinguish",
      "differentiate", "discern", "perceive", "observe", "document", "comment", "annotate",
      "label", "tag", "mark", "highlight", "emphasize", "stress", "underline", "bold",
      "italicize", "format", "style", "layout", "structure", "organize", "arrange", "order",
      "sequence", "prioritize", "rank", "rate", "grade", "classify", "categorize",
      "business model", "business plan", "strategic plan", "operational plan", "tactical plan",
      "project plan", "risk management", "change management", "performance management",
      "quality management", "resource management", "time management", "cost management",
      "stakeholder management", "communications management", "procurement management",
      "integration management", "scope management", "calculate", "compute", "determine",
      "estimate", "approximate", "forecast", "predict", "project", "extrapolate",
      "interpolate", "derive", "deduce", "infer", "conclude", "reason", "rationalize",
      "justify", "validate", "verify", "confirm", "corroborate", "substantiate", "prove",
      "disprove", "rebut", "refute", "counter", "argue", "debate", "discuss", "consider",
      "contemplate", "ponder", "reflect", "meditate", "ruminate", "deliberate", "weigh",
      "evaluate", "appraise", "assess", "gauge", "measure", "quantify", "qualify",
      "characterize", "depict", "portray", "represent", "symbolize", "signify", "denote",
      "connote", "imply", "suggest", "indicate", "signal", "convey", "communicate", "express",
      "articulate", "vocalize", "verbalize", "phrase", "word", "formulate", "conceptualize",
      "abstract", "generalize", "specialize", "particularize", "instantiate", "exemplify",
      "model", "diagram", "sketch", "draft", "outline">>

\* A containment test that takes a phrase only as whole words.
includesAnyWholeWord(lower, list) ==
    \E i \in 1..Len(list) : WholeWord(lower, {list[i]})

\* The loops of lines 206-217 and 392-403: promptLower.includes(indicator) for
\* some indicator of the list
includesAny(lower, list) == \E i \in 1..Len(list) : includes(lower, list[i])

\* getReasoningLevel with the two loops in the other order.
getReasoningLevelModerateFirst(prompt) ==
    LET lower == toLowerCase(prompt)
    IN IF includesAny(lower, moderateReasoningIndicators) THEN 2
       ELSE IF includesAny(lower, complexReasoningIndicators) THEN 3
       ELSE 1

\* getReasoningLevel (lines 37-221): 3 complex, 2 moderate, 1 simple
getReasoningLevel(prompt) ==
    LET lower == toLowerCase(prompt)
    IN IF includesAny(lower, complexReasoningIndicators) THEN 3
       ELSE IF includesAny(lower, moderateReasoningIndicators) THEN 2
       ELSE 1

\* Lines 228-314
highOpenPhrases ==
    <<"imagine", "write a story", "creative writing", "short story", "novel", "fiction",
      "narrative", "tale", "storyline", "plot", "character", "protagonist", "antagonist",
      "setting", "scene", "dialogue", "monologue", "first-person", "third-person",
      "point of view", "perspective", "narration", "exposition", "rising action", "climax",
      "falling action", "resolution", "denouement", "conflict", "tension", "drama", "comedy",
      "tragedy", "romance", "adventure", "fantasy", "science fiction", "historical fiction",
      "mystery", "thriller", "horror", "western", "fairy tale", "fable", "myth", "legend",
      "epic", "saga", "parable", "allegory", "novella", "flash fiction", "microfiction",
      "vignette", "anecdote", "memoir", "autobiography", "biography", "generate", "create",
      "invent", "design", "develop", "build", "construct", "fashion", "fabricate", "produce",
      "make", "craft", "forge", "compose", "formulate", "devise", "conceive", "dream up",
      "conjure", "concoct", "cook up", "come up with", "think of", "originate", "establish",
      "form", "found", "institute", "constitute", "erect", "assemble", "put together",
      "piece together", "poem", "poetry", "sonnet", "haiku", "limerick", "rhyme", "verse",
      "stanza", "meter", "rhythm", "lyrics", "song", "ballad", "ode", "elegy", "villanelle",
      "sestina", "free verse", "prose poem", "concrete poetry", "slam poetry", "epic poem",
      "narrative poem", "dramatic poem", "lyrical", "metaphorical", "symbolic", "allegoric",
      "figurative", "imagery", "simile", "metaphor", "personification", "hyperbole",
      "alliteration", "assonance", "consonance", "onomatopoeia", "what if", "suppose",
      "imagine if", "scenario where", "in a world where", "alternate reality",
      "alternative history", "counterfactual", "hypothetical situation", "thought experiment",
      "mental exercise", "speculative", "conjecture", "supposition", "postulate", "presuppose",
      "assume", "presume", "theoretical case", "hypothesize", "posit", "theorize", "speculate",
      "brainstorm", "ideate", "explore", "discover", "investigate", "probe", "delve into",
      "examine", "look into", "research", "study", "analyze", "assess", "evaluate", "appraise",
      "review", "survey", "inspect", "scrutinize", "peruse", "browse", "scan", "sift through",
      "comb through", "dig into", "unearth", "uncover", "reveal", "disclose", "expose",
      "bring to light", "illuminate", "how might", "how could", "how would", "tell me",
      "share with me", "suggest", "recommend", "propose", "put forward", "advocate", "endorse",
      "champion", "back", "support", "promote", "encourage", "advance", "further", "foster",
      "nurture", "cultivate", "incubate", "hatch", "draw", "sketch", "illustrate", "paint",
      "depict", "render", "portray", "represent", "visualize", "envision", "picture", "image",
      "conceptualize", "mockup", "wireframe", "prototype", "model", "blueprint", "schematic",
      "diagram", "chart", "graph", "map", "plan", "layout", "design", "architecture",
      "structure", "framework", "scaffold", "skeleton", "outline", "rough draft", "innovate",
      "disrupt", "revolutionize", "transform", "reinvent", "reimagine", "rethink", "redefine",
      "reconceive", "reconceptualize", "restructure", "reorganize", "reform", "remake",
      "remodel", "reshape", "reconfigure", "recalibrate", "reorient", "redirect", "repurpose",
      "upcycle", "breakthrough", "cutting-edge", "state-of-the-art", "avant-garde",
      "pioneering", "game", "gameplay", "mechanic", "rule", "player", "turn", "round", "move",
      "action", "reaction", "strategy", "tactic", "maneuver", "play", "contest", "competition",
      "challenge", "quest", "mission", "objective", "goal", "achievement", "reward", "penalty",
      "puzzle", "maze", "riddle", "enigma", "mystery", "conundrum", "interactive",
      "engagement", "immersion", "experience", "gen z", "generation z", "zoomer", "zoomers",
      "tiktok", "meme", "memes", "viral", "trending", "influencer", "influencers", "clout",
      "flex", "aesthetic", "vibe", "vibes", "vibe check", "mood", "energy", "stan", "fandom",
      "ship", "shipping", "tea", "spill the tea", "shade", "lowkey", "highkey", "slay",
      "slaying", "based", "cringe", "cringey", "sus", "yeet", "dank", "fit", "outfit", "drip",
      "snack", "snatched", "fire", "lit", "fam", "no cap", "goat", "ghost", "ghosted",
      "catfish", "finsta", "rizz", "bussin", "bet", "facts", "cap", "deadass", "simp",
      "savage", "toxic", "basic", "zaddy", "periodt", "wig", "sending me", "rent free",
      "main character", "villain era", "understood the assignment", "cheugy", "giving",
      "gaslighting", "cool", "coolness", "popularity", "trendy", "hip", "fashionable",
      "stylish", "on trend", "in style", "in fashion", "in vogue", "cutting edge",
      "ahead of the curve", "popular", "unpopular", "acceptable", "unacceptable",
      "appropriate", "inappropriate", "preferred", "opinion", "perspective", "viewpoint",
      "stance", "position", "attitude", "mindset", "outlook", "judgment", "assessment",
      "evaluation", "appraisal", "rating", "ranking", "scoring", "interpretation",
      "perception", "impression", "sentiment", "feeling", "emotion", "reaction", "response",
      "reception", "feedback", "critique", "criticism", "review", "analysis", "examination",
      "investigation", "inquiry", "probe", "study", "survey", "poll", "consensus", "agreement",
      "disagreement", "controversy", "determine if", "figure out if", "assess if",
      "evaluate if", "judge if", "decide if", "rate", "rank", "grade", "score", "classify",
      "categorize", "label", "tag", "mark", "brand", "stamp", "badge", "measure", "gauge",
      "meter", "barometer", "yardstick", "benchmark", "standard", "criterion", "norm",
      "convention", "custom", "tradition", "practice", "habit", "routine", "ritual",
      "ceremony", "observance", "rite", "protocol">>

\* Lines 317-389
mediumOpenPhrases ==
    <<"explain", "clarify", "elucidate", "illustrate", "demonstrate", "show", "tell", "inform",
      "educate", "instruct", "teach", "train", "coach", "mentor", "guide", "direct", "steer",
      "lead", "conduct", "usher", "escort", "accompany", "assist", "aid", "help", "support",
      "facilitate", "enable", "empower", "equip", "prepare", "ready", "groom", "prime",
      "position", "describe", "depict", "portray", "characterize", "represent", "express",
      "articulate", "voice", "verbalize", "phrase", "word", "formulate", "state", "declare",
      "pronounce", "proclaim", "announce", "communicate", "convey", "relay", "transmit",
      "dispatch", "disseminate", "spread", "broadcast", "publicize", "advertise", "promote",
      "market", "sell", "pitch", "present", "write", "compose", "draft", "author", "pen",
      "script", "record", "document", "chronicle", "journal", "log", "note", "minute",
      "register", "catalog", "list", "itemize", "enumerate", "detail", "specify",
      "particularize", "pinpoint", "nail down", "zero in on", "focus on", "concentrate on",
      "emphasize", "highlight", "underscore", "stress", "accentuate", "feature", "summarize",
      "recap", "review", "sum up", "wrap up", "round up", "conclude", "finalize", "complete",
      "finish", "end", "terminate", "cease", "halt", "stop", "discontinue", "desist",
      "refrain", "abstain", "forbear", "hold back", "restrain", "contain", "limit", "restrict",
      "confine", "constrain", "narrow", "reduce", "decrease", "diminish", "lessen", "minimize",
      "can you", "would you", "could you", "will you", "may you", "might you", "shall you",
      "should you", "do you", "are you", "is it", "was it", "were they", "have you", "has it",
      "had they", "does it", "did they", "who is", "what is", "where is", "when is", "why is",
      "how is", "which is", "whose is", "whom is", "whatever", "whenever", "wherever",
      "whoever", "help me", "assist me", "aid me", "support me", "guide me", "direct me",
      "lead me", "show me", "tell me", "inform me", "educate me", "instruct me", "teach me",
      "train me", "coach me", "mentor me", "advise me", "counsel me", "consult me",
      "recommend to me", "suggest to me", "propose to me", "offer me", "provide me",
      "furnish me", "supply me", "equip me", "outfit me", "information about", "details on",
      "facts about", "data on", "statistics for", "figures on", "numbers for", "metrics about",
      "measurements of", "dimensions for", "proportions of", "ratios for", "percentages of",
      "fractions of", "portions of", "segments of", "sections of", "parts of", "components of",
      "elements of", "aspects of", "features of", "characteristics of", "analyze", "examine",
      "inspect", "scrutinize", "study", "investigate", "explore", "probe", "research",
      "look into", "delve into", "dig into", "inquire about", "query about", "ask about",
      "question about", "interrogate about", "interview about", "survey about", "poll about",
      "canvas about", "assess", "evaluate", "appraise", "estimate", "gauge", "measure",
      "weigh", "compare", "contrast", "differentiate", "distinguish", "discriminate",
      "separate", "divide", "split", "cleave", "sever", "dissect", "anatomize", "analyze",
      "break down", "dismantle", "disassemble", "take apart", "decompose", "dissolve",
      "resolve", "reduce", "convert", "change", "transform", "transmute", "metamorphose",
      "evolve", "develop", "grow", "mature", "ripen", "plan", "organize", "arrange", "order",
      "structure", "systematic", "methodical", "orderly", "neat", "tidy", "clean",
      "uncluttered", "streamlined", "efficient", "effective", "productive", "fruitful",
      "profitable", "beneficial", "advantageous", "favorable", "positive", "good", "excellent",
      "superior", "outstanding", "exceptional", "extraordinary", "remarkable", "notable",
      "procedure for", "process of", "method for", "technique of", "approach to", "way of",
      "means of", "manner of", "mode of", "fashion of", "style of", "form of", "type of",
      "kind of", "sort of", "class of", "category of", "group of", "set of", "collection of",
      "assortment of", "variety of", "diversity of", "range of", "spectrum of", "gamut of",
      "scale of", "scope of", "extent of", "outline", "sketch", "rough out", "block out",
      "lay out", "map out", "chart", "diagram", "graph", "plot", "scheme", "design",
      "blueprint", "draft", "mock up", "model", "prototype", "pilot", "test", "trial",
      "experiment", "essay", "attempt", "endeavor", "undertaking", "venture", "enterprise",
      "project", "task", "job", "duty", "responsibility", "obligation", "commitment">>

\* getOpennessScore (lines 224-407): 2 high, 1 medium, 0 low
getOpennessScore(prompt) ==
    LET lower == toLowerCase(prompt)
    IN IF includesAny(lower, highOpenPhrases) THEN 2
       ELSE IF includesAny(lower, mediumOpenPhrases) THEN 1
       ELSE 0

\* countTokens (lines 14-18): tokens.length of the tiktoken encoding, which is not
\* part of the repository.  The model counts one token for each run of word
\* characters and one for each other character that is not white space, which is
\* what the encoder yields for common words.
encodedLength(prompt) ==
    Cardinality({i \in 1..Len(prompt) :
                    \/ IsWordAt(prompt, i) /\ ~IsWordAt(prompt, i - 1)
                    \/ Char(prompt, i) \notin WordChars \cup SpaceChars})

\* text-readability, which is not part of the repository either, as the
\* Flesch-Kincaid grade is defined:
\*    0.39 * words / sentences + 11.8 * syllables / words - 15.59,
\* the two averages and the grade rounded to one decimal, and an average that is
\* not a number (no words) replaced by 0.
NonSpaceAt(s, i) == i \in 1..Len(s) /\ Char(s, i) \notin SpaceChars
RECURSIVE NonSpaceEnd(_, _)
NonSpaceEnd(s, p) == IF NonSpaceAt(s, p) THEN NonSpaceEnd(s, p + 1) ELSE p

\* the words that are left when punctuation is removed
lexiconCount(text) ==
    Cardinality({i \in 1..Len(text) :
                    /\ NonSpaceAt(text, i) /\ ~NonSpaceAt(text, i - 1)
                    /\ \E k \in i..(NonSpaceEnd(text, i) - 1) : IsWordAt(text, k)})

SentenceEnds(text) ==
    {i \in 1..(Len(text) - 2) :
        /\ Char(text, i) \in {".", "?", "!"}
        /\ Char(text, i + 1) \in {" ", "|", "\n"}
        /\ \E k \in 1..26 : Char(UpperCaseLetters, k) = Char(text, i + 2)}

\* sentences of more than two words, and never less than one
sentenceCount(text) ==
    LET ends == SentenceEnds(text)
        starts == {1} \cup {i + 2 : i \in ends}
        piece(a) == SubSeq(text, a, Min({i \in ends : i >= a} \cup {Len(text) + 1}) - 1)
    IN Max2(Cardinality({a \in starts : lexiconCount(piece(a)) > 2}), 1)

Vowels == {"a", "e", "i", "o", "u", "y"}
IsLetterAt(s, i) == i \in 1..Len(s) /\ Char(s, i) \in Letters
IsVowelAt(s, i) == i \in 1..Len(s) /\ Char(s, i) \in Vowels

\* one syllable for each group of vowels of a run of letters, and at least one for
\* the run; a run of fewer than three letters has one
syllablesOfRun(lower, a) ==
    LET b == RunEnd(lower, a, Letters)
    IN IF b - a < 3 THEN 1
       ELSE Max2(Cardinality({i \in a..(b - 1) : IsVowelAt(lower, i)
                                                   /\ ~(i > a /\ IsVowelAt(lower, i - 1))}), 1)

syllableCount(text) ==
    LET lower == toLowerCase(text)
        runs == {a \in 1..Len(lower) : IsLetterAt(lower, a) /\ ~IsLetterAt(lower, a - 1)}
        RECURSIVE Sum(_)
        Sum(S) == IF S = {} THEN 0
                  ELSE LET a == Min(S) IN syllablesOfRun(lower, a) + Sum(S \ {a})
    IN Sum(runs)

\* n / d rounded to one decimal, in tenths (Math.round rounds a half upwards)
RoundedTenths(n, d) == (20 * n + d) \div (2 * d)

\* the grade, in tenths
fleschKincaidGrade(text) ==
    LET words == lexiconCount(text)
        sentenceLength == RoundedTenths(words, sentenceCount(text))
        syllablePerWord == IF words = 0 THEN 0 ELSE RoundedTenths(syllableCount(text), words)
    IN (39 * sentenceLength + 1180 * syllablePerWord - 15590 + 50) \div 100

\* getVocabComplexity (lines 31-34): Math.min(score / 12, 1), in 120ths
getVocabComplexity(prompt) == Min2(fleschKincaidGrade(prompt), 120)

\* Quantities of energy: w + f / 2000 units, or not a number
Quantity(w, f) == [nan |-> FALSE, w |-> w, f |-> f]
NotAQuantity == [nan |-> TRUE, w |-> 0, f |-> 0]
\* a >= b as JavaScript compares numbers: false when either is NaN
AtLeast(a, b) == ~a.nan /\ ~b.nan /\ (a.w > b.w \/ (a.w = b.w /\ a.f >= b.f))
IsNegative(a) == ~a.nan /\ a.w < 0
Plus2(a, b) ==
    IF a.nan \/ b.nan THEN NotAQuantity
    ELSE Quantity(a.w + b.w + (a.f + b.f) \div 2000, (a.f + b.f) % 2000)

\* The constants of calculateEnergy (lines 412-423).  The factors are in tenths,
\* NETWORK_OVERHEAD_FACTOR in hundredths.
DATACENTER_OVERHEAD_FACTOR == 25
IDLE_LOAD_FACTOR == 17
NETWORK_OVERHEAD_FACTOR == 115
AMORTIZED_TRAINING_FACTOR == 12
PRODUCTION_ENVIRONMENT_FACTOR == 13
\* the product of the five factors as a fraction
OverheadNumerator ==
    DATACENTER_OVERHEAD_FACTOR * IDLE_LOAD_FACTOR * NETWORK_OVERHEAD_FACTOR
        * AMORTIZED_TRAINING_FACTOR * PRODUCTION_ENVIRONMENT_FACTOR
OverheadDenominator == 10 * 10 * 100 * 10 * 10
RECURSIVE Gcd(_, _)
Gcd(a, b) == IF b = 0 THEN a ELSE Gcd(b, a % b)

\* Lines 435-440 and 443-447, in 300ths
reasoningModifier(reasoningLevel) ==
    CASE reasoningLevel = 3 -> 240 [] reasoningLevel = 2 -> 120 [] reasoningLevel = 1 -> 45
      [] OTHER -> 0
opennessModifier(openness) ==
    CASE openness = 2 -> 120 [] openness = 1 -> 75 [] OTHER -> 0

\* Line 450: complexity * 0.4, in 300ths, for a complexity in 120ths
complexityModifier(complexity) == complexity

\* Lines 454-459, in 300ths; complexity > 0.6 is complexity > 72 in 120ths
inferenceOverhead(reasoningLevel, complexity) ==
    IF reasoningLevel = 3 /\ complexity > 72 THEN 90
    ELSE IF reasoningLevel = 3 \/ complexity > 72 THEN 60
    ELSE 30

\* Line 462, in 300ths
totalModifier(reasoningLevel, openness, complexity) ==
    300 + reasoningModifier(reasoningLevel) + opennessModifier(openness)
        + complexityModifier(complexity) + inferenceOverhead(reasoningLevel, complexity)

\* Line 432: (totalTokens / 1000) * BASE_KWH_PER_1000_TOKENS for the total of tokens in
\* tenths.  The unit of energy is BASE_KWH_PER_1000_TOKENS / 3000000 kWh, the
\* energy of a tenth of a token under a modifier of 1/300.
baseKWh(tokenTotal) ==
    IF tokenTotal.nan THEN NotAQuantity ELSE Quantity(tokenTotal.v10 * 300, 0)

\* Line 465: baseKWh * totalModifier
directKWh(tokenTotal, modifier) ==
    IF tokenTotal.nan THEN NotAQuantity ELSE Quantity(tokenTotal.v10 * modifier, 0)

\* q * n / d for a quantity q and a fraction n / d in whose lowest terms the
\* denominator divides 2000
Scale(q, n, d) ==
    LET g == Gcd(n, d)
        num == n \div g
        den == d \div g
        rest == (q.w % den) * num
    IN IF q.nan THEN NotAQuantity
       ELSE Quantity((q.w \div den) * num + rest \div den
                        + (((rest % den) * 2000 + q.f * num) \div den) \div 2000,
                     (((rest % den) * 2000 + q.f * num) \div den) % 2000)

\* Lines 469-470: directKWh times the five overhead factors
realWorldKWh(direct) == Scale(direct, OverheadNumerator, OverheadDenominator)

\* Lines 466 and 471: kWh * WATER_USAGE_ML_PER_KWH.  Water is counted in units of
\* MlPerWaterUnit millilitres for each kWh of the unit of energy.
WATER_USAGE_ML_PER_KWH == 1500
MlPerWaterUnit == WATER_USAGE_ML_PER_KWH
waterUsageMl(kWh) == Scale(kWh, WATER_USAGE_ML_PER_KWH, MlPerWaterUnit)

\* The value of a set of one element; {F(x) : x \in {e}} evaluates e once.
TheValue(S) == CHOOSE x \in S : TRUE

\* countTokens with hidden state: the total is added to the module's counter
\* totalTokens of line 9, as it would be without the const of line 21
tokenCountsOnCounter(promptTokens, estimatedResponseTokens) ==
    [promptTokens |-> promptTokens,
     estimatedResponseTokens |-> estimatedResponseTokens,
     totalTokens |-> IF estimatedResponseTokens.nan \/ totalTokens.nan THEN NaN
                     ELSE Num10(totalTokens.v10 + 10 * promptTokens
                                + estimatedResponseTokens.v10)]

\* countTokens (lines 14-28)
tokenCounts(promptTokens, estimatedResponseTokens) ==
    [promptTokens |-> promptTokens,
     estimatedResponseTokens |-> estimatedResponseTokens,
     totalTokens |-> IF estimatedResponseTokens.nan THEN NaN
                     ELSE Num10(10 * promptTokens + estimatedResponseTokens.v10)]

countTokens(prompt) ==
    TheValue({tokenCounts(promptTokens, estimatedResponseTokens) :
                 promptTokens \in {encodedLength(prompt)},
                 estimatedResponseTokens \in
                     {estimateResponseTokens(prompt, encodedLength(prompt))}})

\* calculateEnergy (lines 410-491), from the four metrics of lines 426-429 on
energyEstimate(tokens, complexity, reasoningLevel, openness) ==
    LET modifier == totalModifier(reasoningLevel, openness, complexity)
        direct == directKWh(tokens.totalTokens, modifier)
    IN [promptTokens |-> tokens.promptTokens,
        estimatedResponseTokens |-> tokens.estimatedResponseTokens,
        totalTokens |-> tokens.totalTokens,
        complexity |-> complexity,
        reasoningLevel |-> reasoningLevel,
        openness |-> <<"Low", "Medium", "High">>[openness + 1],
        reasoningType |-> <<"Simple", "Moderate", "Complex">>[reasoningLevel],
        baseKWh |-> baseKWh(tokens.totalTokens),
        totalModifier |-> modifier,
        inferenceOverhead |-> inferenceOverhead(reasoningLevel, complexity),
        directKWh |-> direct,
        directWaterUsageMl |-> waterUsageMl(direct),
        realWorldKWh |-> realWorldKWh(direct),
        realWorldWaterUsageMl |-> waterUsageMl(realWorldKWh(direct))]

calculateEnergy(prompt) ==
    TheValue({energyEstimate(tokens, complexity, reasoningLevel, openness) :
                 tokens \in {countTokens(prompt)},
                 complexity \in {getVocabComplexity(prompt)},
                 reasoningLevel \in {getReasoningLevel(prompt)},
                 openness \in {getOpennessScore(prompt)}})

(***************************************************************************)
(* Calls of estimateResponseTokens: a prompt built from an opening, a       *)
(* request and a closing, and a prompt token count                          *)
(***************************************************************************)
MaxPromptTokenCount == 45
PromptTokenCounts == {0, 9, MaxPromptTokenCount}

Openings == {"", "Write ", "create ", "i need ", "why is ", "tell me about ", "Is "}
Requests ==
    {"50 lines of python", "50 lines of javascript", "0 lines of python",
     "5000 lines of java code", "5000 lines of cobol code",
     "a python program that is 30 lines",
     "a javascript program that is 30 lines", "40 lines code",
     "a story about war", "a detailed fanfic", "the government", "a title",
     "a 500 word essay", "5,000 words", "a 3 page essay", "12k words on dogs",
     "two thousand words", "5 ways to save water", "the capital of France",
     "a brief note", "explain how rain forms", "analyze this in detail", "hello", ""}
Closings == {"", "?"}
Prompts == {o \o r \o c : o \in Openings, r \in Requests, c \in Closings}

NotReturned == [returned |-> FALSE, value |-> Num(0)]
Returned(value) == [returned |-> TRUE, value |-> value]

NoEnergyData == [returned |-> FALSE, value |-> <<>>]

EstimatorIdle ==
    /\ callPrompt = ""
    /\ callPromptTokenCount = 0
    /\ tokenEstimate = NotReturned
    /\ countedTokens = NotReturned
    /\ energyData = NoEnergyData

EstimatorInit ==
    /\ callPrompt \in Prompts
    /\ callPromptTokenCount \in PromptTokenCounts
    /\ tokenEstimate = NotReturned
    /\ countedTokens = NotReturned
    /\ energyData = NoEnergyData

Estimate ==
    /\ ~tokenEstimate.returned
    /\ tokenEstimate' = Returned(estimateResponseTokens(callPrompt, callPromptTokenCount))
    /\ UNCHANGED <<callPrompt, callPromptTokenCount, countedTokens, energyData,
                   serverVars, cliVars, classifierVars, historyVars, popupVars>>

(***************************************************************************)
(* index.js: the command-line interface (lines 494-613)                     *)
(***************************************************************************)
MaxPrompts == 2
MaxTokensPerPrompt == 10000

CliPrompts ==
    {"Is Paris the capital of France?", "", "123", "Hi", "The cat sat on the mat.",
     "What time is it?", "Who was Plato?", "Name 5 fruits", "why is the sky blue",
     "Explain why", "how to fix it", "Describe a dog", "Write a title",
     "Write 50 lines of Python", "Create a JavaScript program that is 20 lines",
     "0 lines of python", "Write a story about justice",
     "Compare and analyze the philosophical implications of determinism",
     "Characterize interdisciplinary epistemological considerations",
     "Tell me why the sky is blue", "Is Rome big? Yes it is very big indeed."}
CliInputs == CliPrompts \cup {"exit", "stats", "Stats", "reset"}

\* Line 505: const command = input.toLowerCase(), tabulated once for the lines
\* the user may type.
commandOfInput == {<<i, toLowerCase(i)>> : i \in CliInputs}
command(input) == TheValue({row[2] : row \in {r \in commandOfInput : r[1] = input}})

NoResult ==
    [promptTokens |-> 0, estimatedResponseTokens |-> Num(0), totalTokens |-> Num(0),
     complexity |-> 0, reasoningLevel |-> 0, openness |-> "", reasoningType |-> "",
     baseKWh |-> Quantity(0, 0), totalModifier |-> 0, inferenceOverhead |-> 0,
     directKWh |-> Quantity(0, 0), directWaterUsageMl |-> Quantity(0, 0),
     realWorldKWh |-> Quantity(0, 0), realWorldWaterUsageMl |-> Quantity(0, 0)]

PlusNum(a, b) == IF a.nan \/ b.nan THEN NaN ELSE Num10(a.v10 + b.v10)

CliStart ==
    /\ totalPrompts = 0
    /\ totalTokens = Num(0)
    /\ totalRealWorldKWh = Quantity(0, 0)
    /\ totalRealWorldWaterUsageMl = Quantity(0, 0)
    /\ result = [input |-> "", energy |-> NoResult]
    /\ closed = FALSE
    /\ console = "Enter a prompt"
    /\ pending = <<>>

\* Nothing is piped to the standard input
CliInit == CliStart /\ stdin = <<>> /\ linesRead = 0

\* Lines 507-510
ExitLine(input) ==
    /\ ~closed
    /\ command(input) = "exit"
    /\ closed' = TRUE
    /\ UNCHANGED <<totalPrompts, totalTokens, totalRealWorldKWh,
                   totalRealWorldWaterUsageMl, result, console, pending>>
    /\ UNCHANGED <<serverVars, estimatorVars, classifierVars, historyVars, popupVars>>

\* Lines 512-516
StatsLine(input) ==
    /\ ~closed
    /\ command(input) = "stats"
    /\ console' = "stats"
    /\ UNCHANGED <<totalPrompts, totalTokens, totalRealWorldKWh,
                   totalRealWorldWaterUsageMl, result, closed, pending>>
    /\ UNCHANGED <<serverVars, estimatorVars, classifierVars, historyVars, popupVars>>

\* Lines 518-523 and resetStats (lines 605-610)
ResetLine(input) ==
    /\ ~closed
    /\ command(input) = "reset"
    /\ totalPrompts' = 0
    /\ totalTokens' = Num(0)
    /\ totalRealWorldKWh' = Quantity(0, 0)
    /\ totalRealWorldWaterUsageMl' = Quantity(0, 0)
    /\ console' = "reset"
    /\ UNCHANGED <<result, closed, pending>>
    /\ UNCHANGED <<serverVars, estimatorVars, classifierVars, historyVars, popupVars>>

\* calculateEnergy on each prompt the user may type (the function is pure, so
\* its results are tabulated once).
energyOfPrompt == {<<p, calculateEnergy(p)>> : p \in CliPrompts}

\* Lines 525-527: every other line is analysed as a prompt.  The handler is
\* async: it runs up to the await of calculateEnergy(input) and returns, so
\* that the lines that readline has read already are handled before the
\* analysis resumes.
PromptLine(input) ==
    /\ ~closed
    /\ command(input) \notin {"exit", "stats", "reset"}
    /\ totalPrompts + Len(pending) < MaxPrompts
    /\ \E energy \in {row[2] : row \in {r \in energyOfPrompt : r[1] = input}} :
          ~energy.totalTokens.nan => energy.totalTokens.v10 <= 10 * MaxTokensPerPrompt
    /\ pending' = Append(pending, input)
    /\ UNCHANGED <<totalPrompts, totalTokens, totalRealWorldKWh,
                   totalRealWorldWaterUsageMl, result, closed, console>>
    /\ UNCHANGED <<serverVars, estimatorVars, classifierVars, historyVars, popupVars>>

\* Lines 527-575 and 580-583: the oldest pending analysis resumes with the
\* result of calculateEnergy, adds it to the counters and prints it with the
\* totals
AnalysisCompletes ==
    /\ pending # <<>>
    /\ \E energy \in {row[2] : row \in {r \in energyOfPrompt : r[1] = Head(pending)}} :
          /\ result' = [input |-> Head(pending), energy |-> energy]
          /\ totalPrompts' = totalPrompts + 1
          /\ totalTokens' = PlusNum(totalTokens, energy.totalTokens)
          /\ totalRealWorldKWh' = Plus2(totalRealWorldKWh, energy.realWorldKWh)
          /\ totalRealWorldWaterUsageMl' =
                 Plus2(totalRealWorldWaterUsageMl, energy.realWorldWaterUsageMl)
    /\ pending' = Tail(pending)
    /\ console' = "analysis"
    /\ UNCHANGED closed
    /\ UNCHANGED <<serverVars, estimatorVars, classifierVars, historyVars, popupVars>>

\* Lines 576-583: calculateEnergy rejects, as it does when the encoder cannot
\* be made; the catch prints the error and the totals are printed
AnalysisFails ==
    /\ pending # <<>>
    /\ pending' = Tail(pending)
    /\ console' = "error"
    /\ UNCHANGED <<totalPrompts, totalTokens, totalRealWorldKWh,
                   totalRealWorldWaterUsageMl, result, closed>>
    /\ UNCHANGED <<serverVars, estimatorVars, classifierVars, historyVars, popupVars>>

(***************************************************************************)
(* Calls of the three classifiers of index.js on a text                     *)
(***************************************************************************)
Texts == Prompts \cup CliPrompts

NotCalled == [returned |-> FALSE, value |-> 0]

ClassifierIdle ==
    /\ classifiedText = ""
    /\ reasoningLevelOfText = NotCalled
    /\ opennessScoreOfText = NotCalled
    /\ vocabComplexityOfText = NotCalled

ClassifierInit ==
    /\ classifiedText \in Texts
    /\ reasoningLevelOfText = NotCalled
    /\ opennessScoreOfText = NotCalled
    /\ vocabComplexityOfText = NotCalled

GetReasoningLevel ==
    /\ ~reasoningLevelOfText.returned
    /\ reasoningLevelOfText' = Returned(getReasoningLevel(classifiedText))
    /\ UNCHANGED <<classifiedText, opennessScoreOfText, vocabComplexityOfText>>
    /\ UNCHANGED <<serverVars, estimatorVars, cliVars, historyVars, popupVars>>

GetOpennessScore ==
    /\ ~opennessScoreOfText.returned
    /\ opennessScoreOfText' = Returned(getOpennessScore(classifiedText))
    /\ UNCHANGED <<classifiedText, reasoningLevelOfText, vocabComplexityOfText>>
    /\ UNCHANGED <<serverVars, estimatorVars, cliVars, historyVars, popupVars>>

GetVocabComplexity ==
    /\ ~vocabComplexityOfText.returned
    /\ vocabComplexityOfText' = Returned(getVocabComplexity(classifiedText))
    /\ UNCHANGED <<classifiedText, reasoningLevelOfText, opennessScoreOfText>>
    /\ UNCHANGED <<serverVars, estimatorVars, cliVars, historyVars, popupVars>>

(***************************************************************************)
(* The content script (unnamed/part_002): the recorded prompts.  Every tab  *)
(* of the page runs the script with its own conversationHistory; the tabs   *)
(* share the page's localStorage.                                           *)
(***************************************************************************)
Tabs == {"tab-1", "tab-2"}
PagePrompts == {"", "Is it wet?", "write a story about rain"}

\* The texts of user messages: no text, and prompts of which two share their
\* first 50 characters
RainInSummer == "Explain how rain forms over the ocean in the tropics in summer"
RainInWinter == "Explain how rain forms over the ocean in the tropics in winter"
ChatPrompts == {"", "Is it wet?", RainInSummer, RainInWinter}
MaxClock == 1

\* countTokens (lines 75-79): Math.ceil(words * 1.3) for the pieces that
\* text.trim().split(/\s+/) yields; the empty text yields one piece
contentCountTokens(text) ==
    Ceil(Max2(Cardinality({i \in 1..Len(text) :
                              NonSpaceAt(text, i) /\ ~NonSpaceAt(text, i - 1)}), 1) * 13, 10)

\* estimateResponseTokens (lines 5-28), in tenths
contentEstimateResponseTokens(text, promptTokenCount) ==
    LET lower == toLowerCase(text)
    IN IF QuestionFrom(lower, WB(lower, Alt(lower, AtStart, YesNoVerbs)))
       THEN Max2(promptTokenCount * 12, 200)
       ELSE IF includes(lower, "write a story") \/ includes(lower, "write an essay")
                 \/ includes(lower, "poem") \/ includes(lower, "fiction")
       THEN Max2(15000, promptTokenCount * 70)
       ELSE IF includes(lower, "code") \/ includes(lower, "program")
                 \/ includes(lower, "function") \/ includes(lower, "javascript")
                 \/ includes(lower, "python") \/ includes(lower, "java")
       THEN Max2(8000, promptTokenCount * 50)
       ELSE Max2(promptTokenCount * 30, 2000)

\* calculateEnergy (lines 31-72).  totalModifier = 1 + complexity * 0.5 with
\* complexity = Math.min((prompt.length / 500) * 0.5, 0.8) is
\* (2000 + min(prompt.length, 800)) / 2000; the unit of energy is that of a tenth
\* of a token under a modifier of 1/2000.
contentCalculateEnergy(text, promptTokens) ==
    LET estimatedResponseTokens == contentEstimateResponseTokens(text, promptTokens)
        tokenTotal == 10 * promptTokens + estimatedResponseTokens
        direct == Quantity(tokenTotal * (2000 + Min2(Len(text), 800)), 0)
    IN [promptTokens |-> promptTokens,
        estimatedResponseTokens |-> Num10(estimatedResponseTokens),
        totalTokens |-> Num10(tokenTotal),
        directKWh |-> direct,
        directWaterUsageMl |-> waterUsageMl(direct),
        realWorldKWh |-> realWorldKWh(direct),
        realWorldWaterUsageMl |-> waterUsageMl(realWorldKWh(direct))]

\* localStorage.getItem('chatgpt-conversation-history'): null, or the text that
\* JSON.stringify made of a history.  JSON.parse of that text is a copy of the
\* history.
NoItem == [item |-> FALSE, valid |-> TRUE, json |-> <<>>]
stringify(history) == [item |-> TRUE, valid |-> TRUE, json |-> history]
parse(stored) == stored.json

\* A stored text that is not JSON, such as '{"invalid json":'
MalformedItem == [item |-> TRUE, valid |-> FALSE, json |-> <<>>]

\* JSON.parse (line 89) throws a SyntaxError for a text that is not JSON
throwsSyntaxError(stored) == ~stored.valid

\* A load without the try and catch: the SyntaxError leaves the function.
loadConversationHistoryUncaught(history, stored) ==
    IF ~stored.item THEN [threw |-> FALSE, history |-> history]
    ELSE IF throwsSyntaxError(stored) THEN [threw |-> TRUE, history |-> history]
    ELSE [threw |-> FALSE, history |-> parse(stored)]

\* loadConversationHistory (lines 85-96): the conversationHistory it leaves and
\* whether an exception leaves the function
loadConversationHistory(history, stored) ==
    IF ~stored.item THEN [threw |-> FALSE, history |-> history]
    ELSE IF throwsSyntaxError(stored) THEN [threw |-> FALSE, history |-> <<>>]
    ELSE [threw |-> FALSE, history |-> parse(stored)]

\* A duplicate test that looks at the latest record only.
isDuplicateOfLatestPrompt(history, text) ==
    history # <<>> /\ history[Len(history)].prompt = text

\* isDuplicatePrompt (lines 104-106)
isDuplicatePrompt(history, text) == \E i \in 1..Len(history) : history[i].prompt = text

\* Lines 114-115 on each text of a page (the functions are pure, so their
\* results are tabulated once)
energyOfPageText ==
    [text \in PagePrompts \cup ChatPrompts |->
        contentCalculateEnergy(text, contentCountTokens(text))]

\* the record of lines 116-120
newPrompt(text, now) ==
    [timestamp |-> now, prompt |-> text, energyData |-> energyOfPageText[text]]

NoCall == [op |-> "", tab |-> "", prompt |-> "", returned |-> FALSE]

\* Calls of the content script's calculateEnergy(prompt, promptTokens): any
\* number can be passed as promptTokens
PromptTokensInputs == {0 - 1000, 0 - 5, 0, 9}

\* The prompts of these calls, with texts of white space only
WhiteSpaceTexts == {" ", "   "}

EnergyInit ==
    /\ callPrompt \in Prompts \cup WhiteSpaceTexts
    /\ callPromptTokenCount \in PromptTokensInputs
    /\ tokenEstimate = NotReturned
    /\ countedTokens = NotReturned
    /\ energyData = NoEnergyData

CalculateEnergy ==
    /\ ~energyData.returned
    /\ energyData' = [returned |-> TRUE,
                       value |-> contentCalculateEnergy(callPrompt, callPromptTokenCount)]
    /\ UNCHANGED <<callPrompt, callPromptTokenCount, tokenEstimate, countedTokens,
                   serverVars, cliVars, classifierVars, historyVars, popupVars>>

\* A call of the content script's countTokens(text) (lines 75-79)
CountTokens ==
    /\ ~countedTokens.returned
    /\ countedTokens' = Returned(Num(contentCountTokens(callPrompt)))
    /\ UNCHANGED <<callPrompt, callPromptTokenCount, tokenEstimate, energyData,
                   serverVars, cliVars, classifierVars, historyVars, popupVars>>

\* The document of a tab: the texts that extractMessageText (lines 130-141)
\* yields for the elements of [data-message-author-role="user"] (line 151) and
\* for those of the alternative selectors (line 206)
NoMessages == [user |-> <<>>, alternative |-> <<>>]
Selectors == {"user", "alternative"}

\* The timers of a tab: the timeout of initialize (lines 469-472), the interval
\* of setupPeriodicCheck (line 244), the pending timeouts with processChat of
\* lines 241 and 480, and the pending retries of lines 198 and 232
NoTimers == [setup |-> FALSE, interval |-> FALSE, checks |-> 0, retries |-> 0]
AfterInitialize == [NoTimers EXCEPT !.setup = TRUE]
PeriodicCheck == [NoTimers EXCEPT !.interval = TRUE]

\* No tab has a script that runs
ChatInit ==
    /\ userMessages = [t \in Tabs |-> NoMessages]
    /\ lastProcessedPrompts = [t \in Tabs |-> <<>>]
    /\ timers = [t \in Tabs |-> NoTimers]

\* The page's localStorage holds no item or a text that is not JSON when the
\* first tab opens.
HistoryInit ==
    /\ localStorage \in {NoItem, MalformedItem}
    /\ conversationHistory = [t \in Tabs |-> <<>>]
    /\ loaded = [t \in Tabs |-> FALSE]
    /\ clock = 0
    /\ call = NoCall
    /\ ChatInit

HistoryIdle == HistoryInit /\ localStorage = NoItem

\* The page is loaded or loaded again in a tab: the script starts with an empty
\* history (line 82), an empty set of processed prompts (line 144) and no
\* timers; initialize (lines 464-472) loads the stored history and sets the
\* timeout of the setup; an exception out of the load would end initialize
\* before the script is set up.  The page shows the thread it showed before.
PageLoad(t) ==
    /\ \E outcome \in {loadConversationHistory(<<>>, localStorage)} :
          /\ conversationHistory' = [conversationHistory EXCEPT ![t] = outcome.history]
          /\ loaded' = [loaded EXCEPT ![t] = ~outcome.threw]
          /\ call' = [op |-> "loadConversationHistory", tab |-> t, prompt |-> "",
                      returned |-> ~outcome.threw]
          /\ timers' = [timers EXCEPT
                           ![t] = IF outcome.threw THEN NoTimers ELSE AfterInitialize]
    /\ lastProcessedPrompts' = [lastProcessedPrompts EXCEPT ![t] = <<>>]
    /\ UNCHANGED <<localStorage, clock, userMessages>>
    /\ UNCHANGED <<serverVars, estimatorVars, cliVars, classifierVars, popupVars>>

\* addPromptToHistory (lines 109-127), with saveConversationHistory (lines 99-101)
AddPromptToHistory(t, text) ==
    /\ loaded[t]
    /\ IF text = "" \/ isDuplicatePrompt(conversationHistory[t], text)
       THEN /\ call' = [op |-> "addPromptToHistory", tab |-> t, prompt |-> text,
                        returned |-> FALSE]
            /\ UNCHANGED <<conversationHistory, localStorage>>
       ELSE /\ conversationHistory' =
                   [conversationHistory EXCEPT
                       ![t] = Append(conversationHistory[t], newPrompt(text, clock))]
            /\ localStorage' = stringify(conversationHistory'[t])
            /\ call' = [op |-> "addPromptToHistory", tab |-> t, prompt |-> text,
                        returned |-> TRUE]
    /\ UNCHANGED <<loaded, clock, chatVars>>
    /\ UNCHANGED <<serverVars, estimatorVars, cliVars, classifierVars, popupVars>>

\* The clearHistory message (lines 491-494)
ClearHistory(t) ==
    /\ loaded[t]
    /\ conversationHistory' = [conversationHistory EXCEPT ![t] = <<>>]
    /\ localStorage' = stringify(conversationHistory'[t])
    /\ call' = [op |-> "clearHistory", tab |-> t, prompt |-> "", returned |-> TRUE]
    /\ UNCHANGED <<loaded, clock, chatVars>>
    /\ UNCHANGED <<serverVars, estimatorVars, cliVars, classifierVars, popupVars>>

\* String.prototype.substring(start, end) for 0 <= start <= end
substring(s, start, end) == SubSeq(s, start + 1, Min2(end, Len(s)))

\* Bounds of the chat: the user messages of a document and the pending
\* timeouts of each kind
MaxMessages == 2
MaxChecks == 2
MaxRetries == 3

\* promptKey (lines 162 and 211)
promptKey(promptText) == substring(promptText, 0, 50)

\* lastProcessedPrompts.has(promptKey); the Set is the sequence of its keys in
\* the order of their insertion
hasKey(keys, key) == \E i \in 1..Len(keys) : keys[i] = key

\* Lines 179-185: a set of more than 200 keys loses its 50 oldest
trimmedKeys(keys) == IF Len(keys) > 200 THEN SubSeq(keys, 51, Len(keys)) ELSE keys

\* The body of the forEach of lines 157-192, and that of lines 209-224 which
\* does not trim the set: a text that is not empty and whose key is new is added
\* to the history; when addPromptToHistory returns false the run is marked for a
\* retry and the key is not kept
processMessage(run, promptText, now, trims) ==
    IF promptText = "" \/ hasKey(run.keys, promptKey(promptText)) THEN run
    ELSE IF isDuplicatePrompt(run.history, promptText)
    THEN [run EXCEPT !.allPromptsValid = FALSE]
    ELSE [run EXCEPT
             !.history = Append(@, newPrompt(promptText, now)),
             !.keys = IF trims THEN trimmedKeys(Append(@, promptKey(promptText)))
                      ELSE Append(@, promptKey(promptText))]

RECURSIVE processMessages(_, _, _, _)
processMessages(run, texts, now, trims) ==
    IF texts = <<>> THEN run
    ELSE processMessages(processMessage(run, Head(texts), now, trims), Tail(texts),
                         now, trims)

\* processChat (lines 147-234): the history and the keys it leaves and the
\* number of retries it schedules (lines 195-199 and 229-232)
processChat(history, keys, messages, now) ==
    LET direct == processMessages([history |-> history, keys |-> keys,
                                   allPromptsValid |-> TRUE],
                                  messages.user, now, TRUE)
        fallback == processMessages([direct EXCEPT !.allPromptsValid = TRUE],
                                    messages.alternative, now, FALSE)
    IN IF Len(messages.user) = 0
       THEN [history |-> fallback.history, keys |-> fallback.keys,
             retries |-> (IF direct.allPromptsValid THEN 0 ELSE 1)
                            + (IF fallback.allPromptsValid THEN 0 ELSE 1)]
       ELSE [history |-> direct.history, keys |-> direct.keys,
             retries |-> IF direct.allPromptsValid THEN 0 ELSE 1]

\* The timeout of initialize fires (lines 469-472): setupPeriodicCheck (lines
\* 237-245) sets the timeout of the first check and the interval
SetupPeriodicCheck(t) ==
    /\ timers[t].setup
    /\ timers' = [timers EXCEPT ![t] = [@ EXCEPT !.setup = FALSE, !.interval = TRUE,
                                                 !.checks = @ + 1]]
    /\ UNCHANGED <<localStorage, conversationHistory, loaded, clock, call,
                   userMessages, lastProcessedPrompts>>
    /\ UNCHANGED <<serverVars, estimatorVars, cliVars, classifierVars, popupVars>>

\* The user sends a message: the document of the tab has one more user
\* message.  A page marks its user messages in one of the two ways.
MessageAppears(t, text, selector) ==
    /\ loaded[t]
    /\ Len(userMessages[t][selector]) < MaxMessages
    /\ \A other \in Selectors \ {selector} : userMessages[t][other] = <<>>
    /\ userMessages' = [userMessages EXCEPT ![t][selector] = Append(@, text)]
    /\ UNCHANGED <<localStorage, conversationHistory, loaded, clock, call,
                   lastProcessedPrompts, timers>>
    /\ UNCHANGED <<serverVars, estimatorVars, cliVars, classifierVars, popupVars>>

\* The user starts a new chat: the document has no user messages, and the
\* observer of lines 475-482 sees the new URL and sets a timeout with
\* processChat
UrlChanges(t) ==
    /\ loaded[t]
    /\ timers[t].checks < MaxChecks
    /\ userMessages' = [userMessages EXCEPT ![t] = NoMessages]
    /\ timers' = [timers EXCEPT ![t].checks = @ + 1]
    /\ UNCHANGED <<localStorage, conversationHistory, loaded, clock, call,
                   lastProcessedPrompts>>
    /\ UNCHANGED <<serverVars, estimatorVars, cliVars, classifierVars, popupVars>>

\* A timer of the tab calls processChat (lines 147-234); fired are the timers
\* that are left when the one that calls it has fired.  Every added prompt is
\* saved (line 124).
ProcessChat(t, fired) ==
    /\ loaded[t]
    /\ \E outcome \in {processChat(conversationHistory[t], lastProcessedPrompts[t],
                                     userMessages[t], clock)} :
          /\ fired.retries + outcome.retries <= MaxRetries
          /\ conversationHistory' = [conversationHistory EXCEPT ![t] = outcome.history]
          /\ localStorage' = IF outcome.history = conversationHistory[t]
                             THEN localStorage
                             ELSE stringify(outcome.history)
          /\ lastProcessedPrompts' = [lastProcessedPrompts EXCEPT ![t] = outcome.keys]
          /\ timers' = [timers EXCEPT
                           ![t] = [fired EXCEPT !.retries = @ + outcome.retries]]
          /\ call' = [op |-> "processChat", tab |-> t, prompt |-> "",
                      returned |-> outcome.retries = 0]
    /\ UNCHANGED <<loaded, clock, userMessages>>
    /\ UNCHANGED <<serverVars, estimatorVars, cliVars, classifierVars, popupVars>>

\* A timeout of line 241 or of line 480 fires
CheckFires(t) ==
    /\ timers[t].checks > 0
    /\ ProcessChat(t, [timers[t] EXCEPT !.checks = @ - 1])

\* The interval of line 244 fires
IntervalFires(t) ==
    /\ timers[t].interval
    /\ ProcessChat(t, timers[t])

\* A retry of line 198 or of line 232 fires
RetryFires(t) ==
    /\ timers[t].retries > 0
    /\ ProcessChat(t, [timers[t] EXCEPT !.retries = @ - 1])

\* Time passes: new Date() of line 117 is later
Tick ==
    /\ clock < MaxClock
    /\ clock' = clock + 1
    /\ UNCHANGED <<localStorage, conversationHistory, loaded, call, chatVars>>
    /\ UNCHANGED <<serverVars, estimatorVars, cliVars, classifierVars, popupVars>>

(***************************************************************************)
(* popupStats.js and popup.js: the popup of the extension.  The clock       *)
(* counts days; day 0 is Saturday 30 May 2026, so that day 1 is a Sunday,    *)
(* the first day of a week, and day 2 the first day of a month.             *)
(***************************************************************************)
Periods == {"today", "week", "month", "all"}

\* now.getDay(): 0 is Sunday
getDay(now) == (now + 6) % 7
\* now.getDate(): the day of the month, 30 and 31 May, then June and July
getDate(now) == IF now <= 1 THEN now + 30 ELSE IF now <= 31 THEN now - 1 ELSE now - 31

\* Lines 131-154: the start date of the period; new Date(0) is 20603 days
\* before day 0
startDate(period, now) ==
    CASE period = "today" -> now
      [] period = "week" -> now - getDay(now)
      [] period = "month" -> now - (getDate(now) - 1)
      [] OTHER -> 0 - 20603

\* Lines 156-160: the prompts of the period
filteredPrompts(history, period, now) ==
    SelectSeq(history,
              LAMBDA item : item.timestamp >= startDate(period, now)
                            /\ item.timestamp <= now)

\* value || 0 of lines 170-172: a NaN counts as 0
orZero(number) == IF number.nan THEN [number EXCEPT !.nan = FALSE] ELSE number

\* Lines 162-174: the sums over the prompts, from the first one on
RECURSIVE sumOfPrompts(_)
sumOfPrompts(prompts) ==
    IF prompts = <<>>
    THEN [totalTokens |-> Num(0), totalEnergyKwh |-> Quantity(0, 0),
          totalWaterMl |-> Quantity(0, 0)]
    ELSE LET before == sumOfPrompts(SubSeq(prompts, 1, Len(prompts) - 1))
             item == prompts[Len(prompts)]
         IN [totalTokens |-> PlusNum(before.totalTokens, orZero(item.energyData.totalTokens)),
             totalEnergyKwh |->
                 Plus2(before.totalEnergyKwh, orZero(item.energyData.realWorldKWh)),
             totalWaterMl |->
                 Plus2(before.totalWaterMl, orZero(item.energyData.realWorldWaterUsageMl))]

\* return null of line 128
NoStats == [null |-> TRUE]

\* Lines 162-185: the statistics of a list of prompts
statsOfPrompts(prompts, period, now) ==
    LET sums == sumOfPrompts(prompts)
    IN [null |-> FALSE,
        totalPrompts |-> Len(prompts),
        totalTokens |-> sums.totalTokens,
        totalEnergyKwh |-> sums.totalEnergyKwh,
        totalWaterMl |-> sums.totalWaterMl,
        period |-> period,
        startDate |-> startDate(period, now),
        endDate |-> now,
        filteredPrompts |-> prompts]

\* getStatsByPeriod (lines 126-185) of a calculator
getStatsByPeriod(calculator, period, now) ==
    IF ~calculator.loaded THEN NoStats
    ELSE statsOfPrompts(filteredPrompts(calculator.conversationHistory, period, now),
                        period, now)

\* chrome.storage.local before anything is stored in it
EmptyStorage ==
    [dataReportingEnabled |-> FALSE, hasLastSubmitted |-> FALSE,
     lastSubmittedWaterUsage |-> Quantity(0, 0)]

\* storageData.lastSubmittedWaterUsage || 0 (lines 42 and 258)
storedLastSubmitted(storage) ==
    IF storage.hasLastSubmitted THEN orZero(storage.lastSubmittedWaterUsage)
    ELSE Quantity(0, 0)

\* The constructor (lines 35-45), with the answer of chrome.storage.local.get
NewCalculator(storage) ==
    [conversationHistory |-> <<>>, loaded |-> FALSE,
     dataReportingEnabled |-> storage.dataReportingEnabled,
     lastSubmittedWaterUsage |-> storedLastSubmitted(storage)]

\* A call of submitWaterUsage (lines 250-291): where it is, its argument, what
\* it read as previouslySubmitted and what its promise resolved to
MaxSubmissions == 2
NoSubmission ==
    [pc |-> "none", waterUsageML |-> Quantity(0, 0),
     previouslySubmitted |-> Quantity(0, 0), value |-> "pending"]
Resolved(submission, value) == [submission EXCEPT !.pc = "done", !.value = value]

\* Line 251: a call returns false at once when reporting is disabled, and
\* otherwise asks chrome.storage.local for lastSubmittedWaterUsage (lines 255-257)
startedSubmission(calculator, waterUsageML) ==
    IF ~calculator.dataReportingEnabled
    THEN Resolved([NoSubmission EXCEPT !.waterUsageML = waterUsageML], "false")
    ELSE [NoSubmission EXCEPT !.pc = "get", !.waterUsageML = waterUsageML]

\* The calls after further calls of submitWaterUsage with the given arguments:
\* each takes the first place that has no call in progress
RECURSIVE withSubmissions(_, _, _)
withSubmissions(calls, calculator, arguments) ==
    IF arguments = <<>> THEN calls
    ELSE LET free == {i \in DOMAIN calls : calls[i].pc \in {"none", "done"}}
         IN withSubmissions(
                [calls EXCEPT ![Min(free)] = startedSubmission(calculator, arguments[1])],
                calculator, Tail(arguments))

\* There is room for that many further calls
hasRoomFor(calls, n) ==
    Cardinality({i \in DOMAIN calls : calls[i].pc \in {"none", "done"}}) >= n

\* popup.js lines 215-221, the end of updateStatsDisplay: the arguments of the
\* calls of submitWaterUsage it makes
submittedAfterDisplay(storage, shown, period) ==
    IF ~shown.null /\ storage.dataReportingEnabled /\ period = "all"
    THEN <<shown.totalWaterMl>>
    ELSE <<>>

\* submitAccumulatedData (lines 349-356): the arguments of the calls of
\* submitWaterUsage it makes
submittedAccumulated(calculator, now) ==
    LET all == getStatsByPeriod(calculator, "all", now)
    IN IF calculator.dataReportingEnabled /\ ~all.null
            /\ ~AtLeast(Quantity(0, 0), all.totalWaterMl)
       THEN <<all.totalWaterMl>>
       ELSE <<>>

\* loadConversationHistory (lines 62-112): the content script of the tab answers
\* the getConversationHistory message with its history (part_002 line 488); when
\* no content script answers, the stored item of the page is read and parsed
historyForPopup(calculator, tabIsLoaded, tabHistory, stored) ==
    IF tabIsLoaded
    THEN [calculator EXCEPT !.conversationHistory = tabHistory, !.loaded = TRUE]
    ELSE IF stored.item /\ ~throwsSyntaxError(stored)
    THEN [calculator EXCEPT !.conversationHistory = parse(stored), !.loaded = TRUE]
    ELSE [calculator EXCEPT !.conversationHistory = <<>>]

NoTab == ""

PopupInit ==
    /\ activeTab = NoTab
    /\ chromeStorage = EmptyStorage
    /\ energyStats = NewCalculator(EmptyStorage)
    /\ stats = NoStats
    /\ submissions = [i \in 1..MaxSubmissions |-> NoSubmission]

\* The popup is opened on a tab: popupStats.js line 360 makes the calculator,
\* loadStats (popup.js lines 123-138) loads the history and shows the
\* statistics of the selected period.  The calls of an earlier popup ended
\* with its page.
PopupOpen(t, period) ==
    /\ activeTab' = t
    /\ energyStats' = historyForPopup(NewCalculator(chromeStorage), loaded[t],
                                      conversationHistory[t], localStorage)
    /\ stats' = getStatsByPeriod(energyStats', period, clock)
    /\ submissions' =
           withSubmissions([i \in 1..MaxSubmissions |-> NoSubmission], energyStats',
                           submittedAfterDisplay(chromeStorage, stats', period))
    /\ UNCHANGED chromeStorage
    /\ UNCHANGED <<serverVars, estimatorVars, cliVars, classifierVars, historyVars>>

\* The period selector changes (popup.js lines 310-312): updateStatsDisplay
PeriodChange(period) ==
    /\ activeTab # NoTab
    /\ stats' = getStatsByPeriod(energyStats, period, clock)
    /\ \E arguments \in {submittedAfterDisplay(chromeStorage, stats', period)} :
          /\ hasRoomFor(submissions, Len(arguments))
          /\ submissions' = withSubmissions(submissions, energyStats, arguments)
    /\ UNCHANGED <<activeTab, energyStats, chromeStorage>>
    /\ UNCHANGED <<serverVars, estimatorVars, cliVars, classifierVars, historyVars>>

\* The clear button (popup.js lines 436-450): the content script of the tab
\* clears its history and the stored one (part_002 lines 490-493) and answers,
\* then the popup clears its copy and shows the statistics of today
PopupClearHistory ==
    /\ activeTab # NoTab
    /\ loaded[activeTab]
    /\ conversationHistory' = [conversationHistory EXCEPT ![activeTab] = <<>>]
    /\ localStorage' = stringify(conversationHistory'[activeTab])
    /\ call' = [op |-> "clearHistory", tab |-> activeTab, prompt |-> "",
                returned |-> TRUE]
    /\ energyStats' = [energyStats EXCEPT !.conversationHistory = <<>>]
    /\ stats' = getStatsByPeriod(energyStats', "today", clock)
    /\ UNCHANGED <<activeTab, loaded, clock, chatVars, chromeStorage, submissions>>
    /\ UNCHANGED <<serverVars, estimatorVars, cliVars, classifierVars>>

\* The data sharing toggle changes (popup.js lines 330-337): toggleDataReporting
\* (popupStats.js lines 327-335) stores the setting and calls
\* submitAccumulatedData when it is enabled, and so does the handler after it
ToggleDataReporting ==
    /\ activeTab # NoTab
    /\ \E enabled \in {~energyStats.dataReportingEnabled} :
          /\ energyStats' = [energyStats EXCEPT !.dataReportingEnabled = enabled]
          /\ chromeStorage' = [chromeStorage EXCEPT !.dataReportingEnabled = enabled]
    /\ \E arguments \in {submittedAccumulated(energyStats', clock)
                           \o submittedAccumulated(energyStats', clock)} :
          /\ hasRoomFor(submissions, Len(arguments))
          /\ submissions' = withSubmissions(submissions, energyStats', arguments)
    /\ UNCHANGED <<activeTab, stats>>
    /\ UNCHANGED <<serverVars, estimatorVars, cliVars, classifierVars, historyVars>>

\* chrome.storage.local answers a call (lines 255-264): nothing new to submit
\* resolves the call to true, otherwise the request is sent (lines 266-277)
StorageAnswers(i) ==
    /\ submissions[i].pc = "get"
    /\ \E previouslySubmitted \in {storedLastSubmitted(chromeStorage)} :
          submissions' =
              [submissions EXCEPT
                  ![i] = IF AtLeast(previouslySubmitted, @.waterUsageML)
                         THEN Resolved(@, "true")
                         ELSE [@ EXCEPT !.pc = "fetch",
                                        !.previouslySubmitted = previouslySubmitted]]
    /\ UNCHANGED <<activeTab, energyStats, stats, chromeStorage>>
    /\ UNCHANGED <<serverVars, estimatorVars, cliVars, classifierVars, historyVars>>

\* fetch rejects, as it does when the server cannot be reached: the catch of
\* lines 287-290 resolves the call to false
FetchFails(i) ==
    /\ submissions[i].pc = "fetch"
    /\ submissions' = [submissions EXCEPT ![i] = Resolved(@, "false")]
    /\ UNCHANGED <<activeTab, energyStats, stats, chromeStorage>>
    /\ UNCHANGED <<serverVars, estimatorVars, cliVars, classifierVars, historyVars>>

\* What the server answers: the body of status 200 (server.js lines 89-94), the
\* body of statuses 400 and 500 (server.js lines 47 and 97), which has an error
\* and no success, or a body that is not JSON
ResponseBodies == {"success", "error", "not JSON"}

\* Lines 279-286: what the call resolves to for a body
resolvedFor(body) ==
    CASE body = "success" -> "true"
      [] body = "error" -> "undefined"
      [] OTHER -> "false"

\* Lines 279-290: the call goes on with the body of the response
ResponseHandled(i, body) ==
    /\ submissions[i].pc = "fetch"
    /\ submissions' = [submissions EXCEPT ![i] = Resolved(@, resolvedFor(body))]
    /\ IF body = "success"
       THEN /\ energyStats' = [energyStats EXCEPT
                                 !.lastSubmittedWaterUsage = submissions[i].waterUsageML]
            /\ chromeStorage' = [chromeStorage EXCEPT
                                   !.hasLastSubmitted = TRUE,
                                   !.lastSubmittedWaterUsage = submissions[i].waterUsageML]
       ELSE UNCHANGED <<energyStats, chromeStorage>>
    /\ UNCHANGED <<activeTab, stats>>

\* The response of a server arrives, whatever the server is
ResponseArrives(i, body) ==
    /\ ResponseHandled(i, body)
    /\ UNCHANGED <<serverVars, estimatorVars, cliVars, classifierVars, historyVars>>

(***************************************************************************)
(* server.js                                                               *)
(***************************************************************************)

\* Bounds of the server model.
MaxWaterML == 3
MaxTotalWaterML == 8
MaxContributors == 4

UserIds == {"user-a", "user-b"}

\* A JSON value of the request body, as far as the handler looks at it:
\* typeof v === 'number' or not (absent, a string, null).
Number(n) == [type |-> "number", v |-> n]
NotANumber == [type |-> "other", v |-> 0]

WaterUsageInputs == {Number(n) : n \in -1..MaxWaterML} \cup {NotANumber}
PreviouslySubmittedInputs == {Number(n) : n \in 0..MaxWaterML} \cup {NotANumber}

NoExchange == [status |-> 0, success |-> FALSE, error |-> ""]
NoRequest == [waterUsageML |-> NotANumber, userId |-> "", previouslySubmitted |-> NotANumber]

\* if (data.submittedUsers[userId]): the key exists and its value is truthy (not 0).
hasSubmittedBefore(users, userId) ==
    userId \in DOMAIN users /\ users[userId] # 0

\* Lines 58-72: how much new water usage to add.
newWaterUsage(users, waterUsageML, userId, previouslySubmitted) ==
    IF hasSubmittedBefore(users, userId)
    THEN LET delta == IF previouslySubmitted.type = "number"
                      THEN waterUsageML - previouslySubmitted.v
                      ELSE waterUsageML - users[userId]
         IN IF delta < 0 THEN 0 ELSE delta
    ELSE waterUsageML

\* Lines 73-76: a user id without a truthy stored value is a new contributor.
newContributorCount(users, userId, count) ==
    IF hasSubmittedBefore(users, userId) THEN count ELSE count + 1

\* Line 82: store this user's total submitted amount.
storeSubmitted(users, userId, waterUsageML) ==
    [u \in DOMAIN users \cup {userId} |-> IF u = userId THEN waterUsageML ELSE users[u]]

\* A validation that lets a negative number through.
isNotOfTypeNumber(waterUsageML) == waterUsageML.type # "number"

\* Line 46: typeof waterUsageML !== 'number' || waterUsageML < 0
isInvalidWaterUsage(waterUsageML) ==
    waterUsageML.type # "number" \/ waterUsageML.v < 0

\* app.post('/api/submit-usage'): the whole handler for one request body.
HandleSubmitUsage(req) ==
    /\ request' = req
    /\ IF isInvalidWaterUsage(req.waterUsageML)
       THEN /\ response' = [status |-> 400, success |-> FALSE,
                            error |-> "Invalid water usage value"]
            /\ UNCHANGED <<totalWaterML, contributorCount, submittedUsers>>
       ELSE LET w == req.waterUsageML.v
                add == newWaterUsage(submittedUsers, w, req.userId, req.previouslySubmitted)
            IN /\ totalWaterML + add <= MaxTotalWaterML
               /\ newContributorCount(submittedUsers, req.userId, contributorCount)
                      <= MaxContributors
               /\ totalWaterML' = totalWaterML + add
               /\ contributorCount' =
                      newContributorCount(submittedUsers, req.userId, contributorCount)
               /\ submittedUsers' = storeSubmitted(submittedUsers, req.userId, w)
               /\ response' = [status |-> 200, success |-> TRUE, error |-> ""]

\* A request of any client is handled
SubmitUsage(req) ==
    /\ HandleSubmitUsage(req)
    /\ UNCHANGED <<estimatorVars, cliVars, classifierVars, historyVars, popupVars>>

\* generateAnonymousId (popupStats.js lines 305-314): the id that the popup's
\* localStorage keeps from the first call on
AnonymousId == "user-a"

\* JSON.stringify of popupStats.js lines 271-275 and the parsing of the body in
\* the server: a whole number arrives as it is and NaN arrives as null
numberOfBody(quantity) == IF quantity.nan THEN NotANumber ELSE Number(quantity.w)
bodyOfSubmission(submission) ==
    [waterUsageML |-> numberOfBody(submission.waterUsageML),
     userId |-> AnonymousId,
     previouslySubmitted |-> numberOfBody(submission.previouslySubmitted)]

\* The request of a call reaches the server (popupStats.js lines 266-277), the
\* server handles it and the call goes on with the body of its response
ServerAnswers(i) ==
    /\ submissions[i].pc = "fetch"
    /\ HandleSubmitUsage(bodyOfSubmission(submissions[i]))
    /\ ResponseHandled(i, IF response'.success THEN "success" ELSE "error")
    /\ UNCHANGED <<estimatorVars, cliVars, classifierVars, historyVars>>

\* The prompts that the page of the reporting tab has recorded, with whole
\* numbers of millilitres
RecordedWater == 1..MaxWaterML
recordedPrompt(text, water) ==
    [timestamp |-> 0, prompt |-> text,
     energyData |-> [totalTokens |-> Num(water), realWorldKWh |-> Quantity(water, 0),
                     realWorldWaterUsageMl |-> Quantity(water, 0)]]
RecordedHistories ==
    {<<recordedPrompt("Is it wet?", a)>> : a \in RecordedWater}
        \cup {<<recordedPrompt("Is it wet?", a), recordedPrompt("Hi", b)>> :
                  a \in RecordedWater, b \in RecordedWater}

\* The page of the reporting tab has recorded prompts; the popup is closed
SubmitInit ==
    /\ \E history \in RecordedHistories :
          /\ localStorage = stringify(history)
          /\ conversationHistory = [t \in Tabs |-> IF t = "tab-1" THEN history ELSE <<>>]
    /\ loaded = [t \in Tabs |-> t = "tab-1"]
    /\ clock = 0
    /\ call = NoCall
    /\ userMessages = [t \in Tabs |-> NoMessages]
    /\ lastProcessedPrompts = [t \in Tabs |-> <<>>]
    /\ timers = [t \in Tabs |-> IF t = "tab-1" THEN PeriodicCheck ELSE NoTimers]

SubmitRequests ==
    [waterUsageML : WaterUsageInputs, userId : UserIds,
     previouslySubmitted : PreviouslySubmittedInputs]

ServerInit ==
    /\ totalWaterML = 0
    /\ contributorCount = 0
    /\ submittedUsers = [u \in {} |-> 0]
    /\ request = NoRequest
    /\ response = NoExchange

(***************************************************************************)
(* The specifications, one for each component; the variables of the other   *)
(* components keep their initial values.                                    *)
(***************************************************************************)
ServerNext == \E req \in SubmitRequests : SubmitUsage(req)
InitServer == ServerInit /\ EstimatorIdle /\ CliInit /\ ClassifierIdle /\ HistoryIdle /\ PopupInit
SpecServer == InitServer /\ [][ServerNext]_vars

\* The server with one client that sends no previouslySubmitted field
OneUserRequests ==
    [waterUsageML : WaterUsageInputs, userId : {"user-a"},
     previouslySubmitted : {NotANumber}]
OneUserNext == \E req \in OneUserRequests : SubmitUsage(req)
InitOneUser == ServerInit /\ EstimatorIdle /\ CliInit /\ ClassifierIdle /\ HistoryIdle /\ PopupInit
SpecOneUser == InitOneUser /\ [][OneUserNext]_vars

EstimatorNext == Estimate
InitEst == ServerInit /\ EstimatorInit /\ CliInit /\ ClassifierIdle /\ HistoryIdle /\ PopupInit
SpecEst == InitEst /\ [][EstimatorNext]_vars

EnergyNext == CalculateEnergy \/ CountTokens
InitEnergy ==
    ServerInit /\ EnergyInit /\ CliInit /\ ClassifierIdle /\ HistoryIdle /\ PopupInit
SpecEnergy == InitEnergy /\ [][EnergyNext]_vars

ClassifierNext == GetReasoningLevel \/ GetOpennessScore \/ GetVocabComplexity
InitClassify == ServerInit /\ EstimatorIdle /\ CliInit /\ ClassifierInit /\ HistoryIdle /\ PopupInit
SpecClassify == InitClassify /\ [][ClassifierNext]_vars

\* The interface at a terminal: the user types a line when the analysis of
\* the line before has been printed
LineIsTyped(input) ==
    /\ pending = <<>>
    /\ \/ ExitLine(input)
       \/ StatsLine(input)
       \/ ResetLine(input)
       \/ PromptLine(input)
    /\ UNCHANGED <<stdin, linesRead>>
AnalysisResumes ==
    /\ AnalysisCompletes \/ AnalysisFails
    /\ UNCHANGED <<stdin, linesRead>>
CliNext ==
    \/ \E input \in CliInputs : LineIsTyped(input)
    \/ AnalysisResumes
InitCli == ServerInit /\ EstimatorIdle /\ CliInit /\ ClassifierIdle /\ HistoryIdle /\ PopupInit
SpecCli == InitCli /\ [][CliNext]_vars

\* The interface with a file piped to its standard input: readline emits the
\* next line of the file, whether an analysis is pending or not (the lines of
\* one chunk are emitted one after the other, before any analysis resumes)
MaxLines == 3
PipedInputs == {"Hi", "Name 5 fruits", "exit", "stats", "reset"}
PipeInit ==
    /\ CliStart
    /\ stdin \in UNION {[1..n -> PipedInputs] : n \in 0..MaxLines}
    /\ linesRead = 0
LineIsRead ==
    /\ linesRead < Len(stdin)
    /\ \E input \in {stdin[linesRead + 1]} :
          \/ ExitLine(input)
          \/ StatsLine(input)
          \/ ResetLine(input)
          \/ PromptLine(input)
    /\ linesRead' = linesRead + 1
    /\ UNCHANGED stdin
PipeNext ==
    \/ LineIsRead
    \/ AnalysisResumes
InitPipe ==
    ServerInit /\ EstimatorIdle /\ PipeInit /\ ClassifierIdle /\ HistoryIdle /\ PopupInit
SpecPipe == InitPipe /\ [][PipeNext]_vars

\* The content script in one tab with its timers.  The timeout of initialize
\* fires; a user who loads the page again and again lets a timer that is set
\* again and again fire at some time.
ChatTab == "tab-1"
ChatNext ==
    \/ PageLoad(ChatTab)
    \/ SetupPeriodicCheck(ChatTab)
    \/ \E text \in ChatPrompts, selector \in Selectors :
          MessageAppears(ChatTab, text, selector)
    \/ UrlChanges(ChatTab)
    \/ CheckFires(ChatTab)
    \/ IntervalFires(ChatTab)
    \/ RetryFires(ChatTab)
ChatFairness ==
    /\ WF_vars(SetupPeriodicCheck(ChatTab))
    /\ SF_vars(CheckFires(ChatTab))
    /\ SF_vars(IntervalFires(ChatTab))
    /\ SF_vars(RetryFires(ChatTab))
InitChat ==
    ServerInit /\ EstimatorIdle /\ CliInit /\ ClassifierIdle /\ HistoryIdle /\ PopupInit
SpecChat == InitChat /\ [][ChatNext]_vars /\ ChatFairness

HistoryNext ==
    \/ \E t \in Tabs : PageLoad(t)
    \/ \E t \in Tabs, p \in PagePrompts : AddPromptToHistory(t, p)
    \/ \E t \in Tabs : ClearHistory(t)
    \/ Tick
InitHistory == ServerInit /\ EstimatorIdle /\ CliInit /\ ClassifierIdle /\ HistoryInit /\ PopupInit
SpecHistory == InitHistory /\ [][HistoryNext]_vars

PopupNext ==
    \/ \E t \in Tabs : PageLoad(t)
    \/ \E t \in Tabs, p \in PagePrompts : AddPromptToHistory(t, p)
    \/ Tick
    \/ \E t \in Tabs, period \in Periods : PopupOpen(t, period)
    \/ \E period \in Periods : PeriodChange(period)
    \/ PopupClearHistory
InitPopup ==
    ServerInit /\ EstimatorIdle /\ CliInit /\ ClassifierIdle /\ HistoryInit /\ PopupInit
SpecPopup == InitPopup /\ [][PopupNext]_vars

\* The popup with data reporting, on one tab and within one day
ReportingTab == "tab-1"
ReportNext ==
    \/ PageLoad(ReportingTab)
    \/ \E p \in PagePrompts : AddPromptToHistory(ReportingTab, p)
    \/ \E period \in Periods : PopupOpen(ReportingTab, period)
    \/ \E period \in Periods : PeriodChange(period)
    \/ ToggleDataReporting
    \/ \E i \in 1..MaxSubmissions : StorageAnswers(i)
    \/ \E i \in 1..MaxSubmissions : FetchFails(i)
    \/ \E i \in 1..MaxSubmissions, body \in ResponseBodies : ResponseArrives(i, body)
InitReport ==
    ServerInit /\ EstimatorIdle /\ CliInit /\ ClassifierIdle /\ HistoryIdle /\ PopupInit
SpecReport == InitReport /\ [][ReportNext]_vars

\* The popup with data reporting and the clear button.  The user looks at the
\* statistics of all time again and again; a popup that asks chrome.storage
\* again and again stays open until the callback is called at some time, and
\* a server that is asked again and again answers with success at some time.
ClearNext ==
    \/ PageLoad(ReportingTab)
    \/ \E p \in PagePrompts : AddPromptToHistory(ReportingTab, p)
    \/ PopupOpen(ReportingTab, "all")
    \/ PopupClearHistory
    \/ ToggleDataReporting
    \/ \E i \in 1..MaxSubmissions : StorageAnswers(i)
    \/ \E i \in 1..MaxSubmissions : FetchFails(i)
    \/ \E i \in 1..MaxSubmissions, body \in ResponseBodies : ResponseArrives(i, body)
ClearFairness ==
    /\ WF_vars(PopupOpen(ReportingTab, "all"))
    /\ \A i \in 1..MaxSubmissions : SF_vars(StorageAnswers(i))
    /\ \A i \in 1..MaxSubmissions : SF_vars(ResponseArrives(i, "success"))
InitClear ==
    ServerInit /\ EstimatorIdle /\ CliInit /\ ClassifierIdle /\ HistoryIdle /\ PopupInit
SpecClear == InitClear /\ [][ClearNext]_vars /\ ClearFairness

\* The popup with data reporting and the server that its requests reach
SubmitNext ==
    \/ \E period \in Periods : PopupOpen(ReportingTab, period)
    \/ \E period \in Periods : PeriodChange(period)
    \/ ToggleDataReporting
    \/ \E i \in 1..MaxSubmissions : StorageAnswers(i)
    \/ \E i \in 1..MaxSubmissions : FetchFails(i)
    \/ \E i \in 1..MaxSubmissions : ServerAnswers(i)
InitSubmit ==
    ServerInit /\ EstimatorIdle /\ CliInit /\ ClassifierIdle /\ SubmitInit /\ PopupInit
SpecSubmit == InitSubmit /\ [][SubmitNext]_vars

\* Calls of getStatsByPeriod on any day from 30 May to the end of June, by a
\* calculator whose history holds a prompt of that day, one of the day before
\* and one of seven days before
MaxDay == 31
HistoryOfLastWeek(text, now) ==
    <<newPrompt(text, now - 7), newPrompt(text, now - 1), newPrompt(text, now)>>

PeriodInit ==
    /\ localStorage = NoItem
    /\ conversationHistory = [t \in Tabs |-> <<>>]
    /\ loaded = [t \in Tabs |-> FALSE]
    /\ clock \in 0..MaxDay
    /\ call = NoCall
    /\ ChatInit
    /\ activeTab = NoTab
    /\ chromeStorage = EmptyStorage
    /\ \E text \in PagePrompts \ {""} :
          energyStats = [NewCalculator(EmptyStorage) EXCEPT
                            !.conversationHistory = HistoryOfLastWeek(text, clock),
                            !.loaded = TRUE]
    /\ stats = NoStats
    /\ submissions = [i \in 1..MaxSubmissions |-> NoSubmission]

\* A call of getStatsByPeriod(period) (popupStats.js lines 126-185)
GetStatsByPeriod(period) ==
    /\ stats' = getStatsByPeriod(energyStats, period, clock)
    /\ UNCHANGED <<activeTab, energyStats, chromeStorage, submissions>>
    /\ UNCHANGED <<serverVars, estimatorVars, cliVars, classifierVars, historyVars>>

PeriodNext == \E period \in Periods : GetStatsByPeriod(period)
InitPeriod == ServerInit /\ EstimatorIdle /\ CliInit /\ ClassifierIdle /\ PeriodInit
SpecPeriod == InitPeriod /\ [][PeriodNext]_vars

(***************************************************************************)
(* The claims about the server (SpecServer)                                 *)
(***************************************************************************)

\* C1: POST /api/submit-usage is idempotent for a repeated total: when a user id
\* whose last accepted submission was the cumulative total W submits W again,
\* the request does not increase totalWaterML, whatever previouslySubmitted
\* value (present or absent) it carries.
C1_RepeatedTotalAddsNothing ==
    [][(/\ response'.status = 200
        /\ hasSubmittedBefore(submittedUsers, request'.userId)
        /\ request'.waterUsageML = Number(submittedUsers[request'.userId]))
       => totalWaterML' <= totalWaterML]_vars

\* C12: totalWaterML never decreases: every submit-usage request, accepted or
\* rejected, from any user id and with any previouslySubmitted, leaves
\* totalWaterML equal or larger, and a submission that is smaller than the
\* user's previous one adds exactly 0.
C12_TotalNeverDecreasesAndSmallerAddsNothing ==
    [][/\ totalWaterML' >= totalWaterML
       /\ (/\ response'.status = 200
           /\ hasSubmittedBefore(submittedUsers, request'.userId)
           /\ request'.waterUsageML.v < submittedUsers[request'.userId])
          => totalWaterML' = totalWaterML]_vars

\* C13: a submit-usage request whose waterUsageML is not a number or is negative
\* is answered with status 400 and the error 'Invalid water usage value', and
\* leaves totalWaterML, contributorCount and submittedUsers unchanged.
C13_InvalidWaterUsageRejected ==
    [][(request'.waterUsageML.type # "number" \/ request'.waterUsageML.v < 0)
       => /\ response'.status = 400
          /\ response'.error = "Invalid water usage value"
          /\ UNCHANGED <<totalWaterML, contributorCount, submittedUsers>>]_vars

\* A negative or non-numeric value has been rejected after earlier submissions
\* were accepted.
C13_Witness ==
    /\ request.waterUsageML \in {Number(-1), NotANumber}
    /\ response.status = 400
    /\ totalWaterML > 0
    /\ contributorCount > 0

\* C14: after any sequence of accepted submissions contributorCount equals the
\* number of distinct user ids that have submitted: a further submission from a
\* user id that has already submitted, including one whose earlier submitted
\* total was 0, does not increase contributorCount.
C14_ContributorCountIsDistinctUsers ==
    contributorCount = Cardinality(DOMAIN submittedUsers)

\* C26: after any sequence of accepted submissions from one user id that carry
\* no previouslySubmitted field, that user's net contribution to totalWaterML
\* equals the largest cumulative total the user has ever submitted (for the
\* sequence 500, 300, 500 it is 500): with this user alone, totalWaterML starts
\* at 0 and every accepted submission of a total w makes it the larger of w and
\* what it was.
C26_NetContributionIsLargestTotal ==
    [][response'.status = 200
          => totalWaterML' = Max2(totalWaterML, request'.waterUsageML.v)]_vars

(***************************************************************************)
(* The claims about estimateResponseTokens (SpecEst)                        *)
(***************************************************************************)

\* C2: for every non-empty prompt and every promptTokenCount >= 0,
\* estimateResponseTokens returns a number that is not below the hard minimum
\* floor of 15 tokens, whichever branch produces it.
C2_EstimateNotBelowFloor ==
    (tokenEstimate.returned /\ callPrompt # "")
        => (~tokenEstimate.value.nan /\ tokenEstimate.value.v10 >= 150)

\* C11: estimateResponseTokens returns an integer for every prompt and every
\* integer promptTokenCount >= 0, in every branch, including the branches that
\* scale promptTokenCount by 1.2, 3.5, 4 or 4.5 inside Math.max without rounding.
C11_EstimateIsInteger ==
    tokenEstimate.returned
        => (~tokenEstimate.value.nan /\ tokenEstimate.value.v10 % 10 = 0)

\* The families of the cascade in the order C6 gives them; the last one, the
\* fallback, matches every prompt.
ClaimedFamilies == 1..14
ClaimedFamilyMatches(k, lower) ==
    CASE k = 1 -> isSimpleFactualQuery(lower)
      [] k = 2 -> firstCodePattern(lower) # 0
      [] k = 3 -> isWhyQuestion(lower) /\ containsSociopoliticalTopic(lower)
      [] k = 4 -> containsSociopoliticalTopic(lower)
      [] k = 5 -> isCreativeWriting(lower)
      [] k = 6 -> lineCountMatch(lower).found
      [] k = 7 -> wordCountMatch(lower).found \/ wordCountAltMatch(lower).found
      [] k = 8 -> pageCountMatch(lower).found
      [] k = 9 -> tellMeAboutMatch(lower)
      [] k = 10 -> hasContentType(lower)
      [] k = 11 -> firstNumericIndicator(lower) # 0
      [] k = 12 -> isListRequest(lower)
      [] k = 13 -> isBareWhy(lower)
      [] OTHER -> TRUE
ClaimedFamilyValue(k, lower, promptTokenCount) ==
    CASE k = 1 -> simpleFactualEstimate(lower, promptTokenCount)
      [] k = 2 -> codeGenerationEstimate(lower)
      [] k = 3 -> sociopoliticalWhyEstimate(promptTokenCount)
      [] k = 4 -> sociopoliticalEstimate(lower, promptTokenCount)
      [] k = 5 -> creativeWritingEstimate(lower, promptTokenCount)
      [] k = 6 -> lineCountEstimate(lower)
      [] k = 7 -> wordCountEstimate(lower)
      [] k = 8 -> pageCountEstimate(lower)
      [] k = 9 -> tellMeAboutEstimate(promptTokenCount)
      [] k = 10 -> contentTypeEstimate(lower)
      [] k = 11 -> numericIndicatorEstimate(lower)
      [] k = 12 -> listEstimate(lower)
      [] k = 13 -> bareWhyEstimate(promptTokenCount)
      [] OTHER -> fallbackEstimate(lower, promptTokenCount)
MatchingFamilies(lower) == {k \in ClaimedFamilies : ClaimedFamilyMatches(k, lower)}

\* C6: estimateResponseTokens is a first-match-wins cascade in the order simple
\* factual query, code request with line count, socio-political 'why',
\* socio-political topic, creative writing, generic line count, word count, page
\* count, 'tell me about', content-type table, numeric word-count variants, list,
\* bare 'why', fallback: the result is the value of the first family that
\* matches, whichever later families match as well.
C6_FirstMatchingFamilyWins ==
    tokenEstimate.returned =>
        \A lower \in {toLowerCase(callPrompt)} :
            \A first \in {Min(MatchingFamilies(lower))} :
                tokenEstimate.value = ClaimedFamilyValue(first, lower, callPromptTokenCount)

\* A returned estimate of a prompt that three or more families match, the value
\* being that of the first and not that of the second.
C6_Witness ==
    /\ tokenEstimate.returned
    /\ \E lower \in {toLowerCase(callPrompt)} :
          \E matching \in {MatchingFamilies(lower)} :
              /\ Cardinality(matching) >= 3
              /\ \E k \in matching \ {Min(matching), Max(matching)} :
                     ClaimedFamilyValue(k, lower, callPromptTokenCount)
                         # tokenEstimate.value

\* Code requests that state a line count and a language, in both orders.
StatedCodeRequests ==
    {[request |-> "50 lines of python", lineCount |-> 50, language |-> "python"],
     [request |-> "50 lines of javascript", lineCount |-> 50, language |-> "javascript"],
     [request |-> "5000 lines of java code", lineCount |-> 5000, language |-> "java"],
     [request |-> "a python program that is 30 lines", lineCount |-> 30,
      language |-> "python"],
     [request |-> "a javascript program that is 30 lines", lineCount |-> 30,
      language |-> "javascript"]}
StatedCodeRequestOf(prompt) ==
    {c \in StatedCodeRequests :
        /\ \E o \in Openings, cl \in Closings : prompt = o \o c.request \o cl
        /\ ~isSimpleFactualQuery(toLowerCase(prompt))}
EstimateOfRequest(stated) ==
    estimateResponseTokens("Write " \o stated, MaxPromptTokenCount)

\* C7: for a code request with a stated line count N and language L the estimate
\* is min(N x tokensPerLine(L) x 1.2, 120000), both when the line count precedes
\* the language and when the language precedes it; for equal N the JavaScript
\* estimate is greater than the Python estimate, which is at least 30 x N.
C7_BothOrdersOfLineCountAndLanguage ==
    tokenEstimate.returned =>
        \A c \in StatedCodeRequestOf(callPrompt) :
            /\ tokenEstimate.value =
                   Num10(Min2(c.lineCount * avgTokensPerLine(c.language) * 12, 1200000))
            /\ c.language = "python" =>
                   /\ ~tokenEstimate.value.nan
                   /\ tokenEstimate.value.v10 >= 10 * 30 * c.lineCount
            /\ \A d \in StatedCodeRequests :
                   (c.language = "javascript" /\ d.language = "python"
                        /\ d.lineCount = c.lineCount)
                   => /\ ~tokenEstimate.value.nan
                      /\ ~EstimateOfRequest(d.request).nan
                      /\ tokenEstimate.value.v10 > EstimateOfRequest(d.request).v10

\* Code requests that state a line count, with a known language, with an
\* unknown one and with none.
LineCountCodeRequests ==
    {c.request : c \in StatedCodeRequests}
        \cup {"0 lines of python", "5000 lines of cobol code", "40 lines code"}

\* C20: for a code request with a stated line count the estimate never exceeds
\* 120000 tokens, for any line count and any language, known or unknown.  A
\* comparison with NaN is false, as in JavaScript: the NaN that C7 finds for the
\* language-first forms exceeds nothing.
C20_CodeEstimateCapped ==
    (/\ tokenEstimate.returned
     /\ \E o \in Openings, r \in LineCountCodeRequests, cl \in Closings :
           callPrompt = o \o r \o cl)
        => ~(~tokenEstimate.value.nan /\ tokenEstimate.value.v10 > 10 * 120000)

\* A request for more lines than the cap allows, in a language that is not in
\* the table, has been estimated at the cap.
C20_Witness ==
    /\ tokenEstimate.returned
    /\ callPrompt = "Write 5000 lines of cobol code"
    /\ tokenEstimate.value = Num(120000)

\* The prompts that reach the fallback (lines 841-870): no earlier family
\* matches them
ReachesFallback(lower) ==
    /\ MatchingFamilies(lower) = {Max(ClaimedFamilies)}
    /\ ~codeGenerationMatch(lower, 1).found

\* The keywords of the reasoning complexity modifiers that the claim names
ReasoningKeywords == {"explain", "detail", "compare", "analyze"}

\* C23: in the fallback branch, the presence of 'explain', 'detail', 'compare'
\* or 'analyze' in the prompt multiplies the returned estimate: a prompt that
\* reaches the fallback and contains one of these keywords gets a strictly
\* larger estimate than the base value max(promptTokenCount x 1.5, 100) (or
\* max(promptTokenCount x 3, 300) for content-creation requests) scaled by the
\* length multiplier alone.
C23_KeywordRaisesFallbackEstimate ==
    tokenEstimate.returned =>
        \A lower \in {toLowerCase(callPrompt)} :
            (ReachesFallback(lower) /\ \E w \in ReasoningKeywords : includes(lower, w))
                => \E m \in {lengthMultiplier(lower)} :
                       /\ ~tokenEstimate.value.nan
                       /\ tokenEstimate.value.v10 * m.den
                              > baseEstimate(lower, callPromptTokenCount) * m.num

(***************************************************************************)
(* The claims about the classifiers (SpecClassify)                         *)
(***************************************************************************)

C9_VocabComplexityInUnitInterval ==
    vocabComplexityOfText.returned =>
        (vocabComplexityOfText.value >= 0 /\ vocabComplexityOfText.value <= 120)

(***************************************************************************)
(* The claims about the command-line interface (SpecCli)                   *)
(***************************************************************************)
Analysed == result.energy # NoResult

\* C3: for every prompt the outputs of calculateEnergy satisfy
\* realWorldKWh >= directKWh >= baseKWh: totalModifier is at least 1 (300
\* 300ths) and the product of the five overhead factors is at least 1.
C3_EnergyOrdering ==
    Analysed =>
        /\ AtLeast(result.energy.realWorldKWh, result.energy.directKWh)
        /\ AtLeast(result.energy.directKWh, result.energy.baseKWh)
        /\ result.energy.totalModifier >= 300
        /\ OverheadNumerator >= OverheadDenominator

ParisPrompt == "Is Paris the capital of France?"
\* prompt.toLowerCase() of the classifiers for this prompt
ParisLower == toLowerCase(ParisPrompt)

NoDuplicatePrompts(history) ==
    \A i, j \in 1..Len(history) : history[i].prompt = history[j].prompt => i = j

\* A step that is one call of addPromptToHistory (Tick alone changes the clock).
AddPromptCall == clock' = clock /\ call'.op = "addPromptToHistory"

\* C4: after any sequence of addPromptToHistory, clearHistory and
\* loadConversationHistory operations no two records of the history have the same
\* prompt text; addPromptToHistory on an empty prompt or on a prompt already in the
\* history returns false and leaves the in-memory history and the persisted store
\* unchanged.
C4_AtMostOncePerPrompt ==
    /\ [](/\ \A t \in Tabs : NoDuplicatePrompts(conversationHistory[t])
          /\ NoDuplicatePrompts(parse(localStorage)))
    /\ [][(/\ AddPromptCall
           /\ \/ call'.prompt = ""
              \/ \E i \in 1..Len(conversationHistory[call'.tab]) :
                     conversationHistory[call'.tab][i].prompt = call'.prompt)
          => /\ ~call'.returned
             /\ conversationHistory' = conversationHistory
             /\ localStorage' = localStorage]_vars

\* A prompt that is already in a history of two records has been refused, and an
\* empty one can be told from it by the call.
C4_Witness ==
    /\ call.op = "addPromptToHistory"
    /\ call.prompt # ""
    /\ ~call.returned
    /\ Len(conversationHistory[call.tab]) = 2
    /\ \E i \in 1..2 : conversationHistory[call.tab][i].prompt = call.prompt
    /\ localStorage = stringify(conversationHistory[call.tab])

\* C5: a record that has been appended to the persisted history stays in it,
\* unmodified, until an explicit clearHistory, under any interleaving of
\* addPromptToHistory calls of several tabs that share the store, each holding
\* its own in-memory copy loaded at initialisation.
C5_StoredRecordsStayUntilCleared ==
    [][call'.op # "clearHistory" =>
          \A i \in 1..Len(parse(localStorage)) :
              \E j \in 1..Len(parse(localStorage')) :
                  parse(localStorage')[j] = parse(localStorage)[i]]_vars

\* C15: loadConversationHistory never throws: when the persisted value is not
\* valid JSON the load returns with the empty list as the history, and a later
\* addPromptToHistory call of that tab operates on that empty history: the
\* prompt it records is the only record of the history and of the stored item.
C15_MalformedItemLoadsAsEmpty ==
    [][/\ (call'.op = "loadConversationHistory" /\ call' # call)
          => /\ call'.returned
             /\ loaded'[call'.tab]
             /\ (localStorage.item /\ throwsSyntaxError(localStorage))
                   => conversationHistory'[call'.tab] = <<>>
       /\ (/\ call'.op = "addPromptToHistory"
           /\ clock' = clock
           /\ call'.returned
           /\ localStorage.item /\ throwsSyntaxError(localStorage))
          => /\ conversationHistory'[call'.tab] = <<newPrompt(call'.prompt, clock)>>
             /\ localStorage' = stringify(conversationHistory'[call'.tab])]_vars

\* A tab has loaded while the stored item is the text that is not JSON.
C15_Witness ==
    /\ localStorage = MalformedItem
    /\ call.op = "loadConversationHistory"
    /\ call.returned
    /\ loaded[call.tab]
    /\ conversationHistory[call.tab] = <<>>

(***************************************************************************)
(* The claims about the popup (SpecPopup)                                   *)
(***************************************************************************)

\* C16: every result of getStatsByPeriod equals the aggregate (prompt count,
\* token, kWh and water sums) over the records that are in the record store at
\* the time of the query and whose timestamp is in the window; a record that the
\* content script appended before the query is not missing from the statistics,
\* also when the period is changed without reopening the popup.
C16_StatsAreOfTheStoredRecords ==
    [][(stats' # stats /\ ~stats'.null)
       => stats' = statsOfPrompts(filteredPrompts(parse(localStorage'), stats'.period,
                                                  clock'),
                                  stats'.period, clock')]_vars

(***************************************************************************)
(* The claims about data reporting (SpecReport)                             *)
(***************************************************************************)

\* The last submitted amount in the calculator and in chrome.storage.local
LastSubmitted ==
    <<energyStats.lastSubmittedWaterUsage, chromeStorage.hasLastSubmitted,
      chromeStorage.lastSubmittedWaterUsage>>

\* C17: submitWaterUsage never throws or rejects: every call resolves to a
\* boolean; when the request fails or the server answers with an error status
\* the call resolves to false and leaves lastSubmittedWaterUsage, in memory and
\* in chrome.storage, unchanged; lastSubmittedWaterUsage is advanced only by a
\* call whose response has success = true, and then to the submitted amount.
C17_FailedSubmissionResolvesFalse ==
    [][/\ \A i \in 1..MaxSubmissions :
            (submissions[i].pc # "done" /\ submissions'[i].pc = "done")
               => /\ submissions'[i].value \in {"true", "false"}
                  /\ submissions'[i].value = "false" => LastSubmitted' = LastSubmitted
       /\ LastSubmitted' # LastSubmitted
             => \E i \in 1..MaxSubmissions :
                   /\ submissions[i].pc = "fetch"
                   /\ submissions'[i] = Resolved(submissions[i], "true")
                   /\ LastSubmitted' = <<submissions[i].waterUsageML, TRUE,
                                         submissions[i].waterUsageML>>]_vars

(***************************************************************************)
(* The claims about data reporting with the server (SpecSubmit)             *)
(***************************************************************************)
\* The cumulative water total of the client: the sum over its recorded prompts
ClientWaterTotal ==
    sumOfPrompts(conversationHistory[ReportingTab]).totalWaterMl

\* C25: under any interleaving of concurrent submitWaterUsage calls from one
\* client (for example the two submitAccumulatedData calls started by one
\* toggle-on), the server's totalWaterML grows by at most that client's
\* cumulative water total: the same usage is never added twice.
C25_UsageIsNeverAddedTwice ==
    AtLeast(ClientWaterTotal, Quantity(totalWaterML, 0))

(***************************************************************************)
(* The claims about processChat and its timers (SpecChat)                   *)
(***************************************************************************)
\* The texts of the user messages that processChat looks at
TextsOnPage ==
    LET messages == userMessages[ChatTab]
        texts == IF Len(messages.user) = 0 THEN messages.alternative ELSE messages.user
    IN {texts[i] : i \in 1..Len(texts)}
IsRecorded(text) == isDuplicatePrompt(conversationHistory[ChatTab], text)

\* C27: every non-empty user message on the page whose exact text is not yet
\* in history is eventually appended to history by the periodic processChat,
\* also when it shares its first 50 characters with a prompt that was
\* processed earlier in the same page session.
C27_EveryMessageIsRecorded ==
    \A text \in ChatPrompts \ {""} :
        (loaded[ChatTab] /\ text \in TextsOnPage /\ ~IsRecorded(text))
            ~> (IsRecorded(text) \/ text \notin TextsOnPage)

\* C28: the number of pending processChat retry timeouts stays bounded: when
\* every user message on the page is already recorded in history, a run of
\* processChat schedules no additional retry.
C28_NoRetryWhenAllIsRecorded ==
    [][(/\ call'.op = "processChat"
        /\ \A text \in TextsOnPage \ {""} : IsRecorded(text))
          => timers'[ChatTab].retries <= timers[ChatTab].retries]_vars

(***************************************************************************)
(* The claims about data reporting after a cleared history (SpecClear)      *)
(***************************************************************************)
\* Reporting is enabled and the all-time water total of the page is not the
\* total that was submitted last
TotalIsNotSubmitted ==
    /\ chromeStorage.dataReportingEnabled
    /\ ~AtLeast(Quantity(0, 0), ClientWaterTotal)
    /\ ClientWaterTotal # storedLastSubmitted(chromeStorage)
\* Reporting was disabled, the history was cleared and there is nothing to
\* submit, or the total is the one that was submitted last
TotalIsSubmitted ==
    \/ ~chromeStorage.dataReportingEnabled
    \/ AtLeast(Quantity(0, 0), ClientWaterTotal)
    \/ ClientWaterTotal = storedLastSubmitted(chromeStorage)

\* C29: with data reporting enabled, every increase of the all-time water
\* total is eventually submitted to the server, also after the history has
\* been cleared and the all-time total restarts below the stored
\* lastSubmittedWaterUsage.
C29_EveryIncreaseIsSubmitted == TotalIsNotSubmitted ~> TotalIsSubmitted

(***************************************************************************)
(* The claims about the content script's calculateEnergy (SpecEnergy)       *)
(***************************************************************************)

\* C18: the energy calculation rejects a negative token count at its boundary
\* instead of computing with it: for no prompt and no promptTokens value does
\* calculateEnergy return a negative totalTokens, kWh or water value.
C18_NoNegativeEnergy ==
    energyData.returned
        => /\ energyData.value.totalTokens.v10 >= 0
           /\ ~IsNegative(energyData.value.directKWh)
           /\ ~IsNegative(energyData.value.directWaterUsageMl)
           /\ ~IsNegative(energyData.value.realWorldKWh)
           /\ ~IsNegative(energyData.value.realWorldWaterUsageMl)

\* C19: the token counter returns 0 for the empty string and for a text of
\* white space only, so that the empty prompt has promptTokens = 0.
C19_EmptyTextCountsZero ==
    (countedTokens.returned /\ callPrompt \in {""} \cup WhiteSpaceTexts)
        => countedTokens.value = Num(0)

\* C22: no POST to /api/submit-usage is sent while data reporting is disabled:
\* under any interleaving of toggleDataReporting, submitAccumulatedData,
\* updateStatsDisplay and the asynchronous storage read inside submitWaterUsage,
\* a request is issued only if dataReportingEnabled is true at the moment it is
\* sent.
C22_NoRequestWhileReportingDisabled ==
    [][\A i \in 1..MaxSubmissions :
          (submissions[i].pc # "fetch" /\ submissions'[i].pc = "fetch")
              => energyStats'.dataReportingEnabled]_vars

(***************************************************************************)
(* The claims about the interface with piped input (SpecPipe)               *)
(***************************************************************************)
PipedPrompts == PipedInputs \cap CliPrompts

\* What calculateEnergy returns for a prompt, in the state it is called in
AnalysisOf(prompt) == TheValue({row[2] : row \in {r \in energyOfPrompt : r[1] = prompt}})

LastResetLine ==
    Max({0} \cup {i \in 1..linesRead : command(stdin[i]) = "reset"})
PromptLinesSinceReset ==
    {i \in (LastResetLine + 1)..linesRead :
        command(stdin[i]) \notin {"exit", "stats", "reset"}}

\* C30: in the CLI, the cumulative counters equal the sums over the prompts
\* entered since the last 'reset': after a 'reset' line is processed,
\* totalPrompts, totalTokens, totalRealWorldKWh and totalRealWorldWaterUsageMl
\* are 0 and stay 0 until a later prompt line is entered, also when the
\* asynchronous analysis of an earlier prompt is still pending when 'reset'
\* arrives; no more prompts are counted than were entered since the last
\* 'reset'.
C30_CountersAreOfThePromptsSinceReset ==
    /\ totalPrompts <= Cardinality(PromptLinesSinceReset)
    /\ (LastResetLine > 0 /\ PromptLinesSinceReset = {})
           => /\ totalPrompts = 0
              /\ totalTokens = Num(0)
              /\ totalRealWorldKWh = Quantity(0, 0)
              /\ totalRealWorldWaterUsageMl = Quantity(0, 0)

(***************************************************************************)
(* The claims about the periods of the statistics (SpecPeriod)              *)
(***************************************************************************)

\* C21: getStatsByPeriod('month') counts every record timestamped within the
\* last 7 days, on every possible current date: for a history holding records
\* at now, now - 1 day and now - 7 days, its totalPrompts is at least 3.
C21_MonthCountsTheLastSevenDays ==
    (~stats.null /\ stats.period = "month") => stats.totalPrompts >= 3

====
